---- MODULE Spec2Model ----
(***************************************************************************)
(* Model of the Instant Translator extension's backend selection core:     *)
(*   - the Ollama (local-model) provider: backends/ollama.js               *)
(*   - the Chrome API provider:           backends/chromeApi.js            *)
(*   - the Coordinator:                   background.js                    *)
(* Strings of the program that the model has to look into (model           *)
(* responses, error texts) are sequences of tokens or of text fragments.   *)
(***************************************************************************)
EXTENDS Integers, Sequences, FiniteSets, TLC

VARIABLES
    config,               \* background.js: let config
    activeBackendModule,  \* background.js: let activeBackendModule
    listening,            \* background.js: onMessageReceived is registered
    initDone,             \* background.js: initialize() has run
    ollamaConfig,         \* ollama.js: let ollamaConfig
    chromeApiConfig,      \* chromeApi.js: let chromeApiConfig
    call,                 \* a function of a provider called on its own: arguments, result
    req,                  \* the requests: messages to the Coordinator, calls of a provider
    supportedLanguagesList,  \* background.js: let supportedLanguagesList
    storage,              \* chrome.storage.local: the value under the key "config"
    configFile,           \* the packaged config.json: what fetching and parsing it gives
    fresh                 \* no message has arrived since the service worker started

vars == <<config, activeBackendModule, listening, initDone, ollamaConfig,
          chromeApiConfig, call, req, supportedLanguagesList, storage, configFile,
          fresh>>

\* What a provider call leaves alone: the Coordinator's globals, the provider's
\* settings, the storage and the packaged file
coordinator == <<config, activeBackendModule, listening, initDone, ollamaConfig,
                 chromeApiConfig, call, supportedLanguagesList, storage, configFile,
                 fresh>>

-----------------------------------------------------------------------------
(* Bounds of the model *)

MaxModels == 2     \* longest model list of a provider configuration
MaxPairs == 1      \* longest language-pair preference list
MaxRespLen == 1    \* longest raw model response, in tokens
MaxRawLen == 5     \* longest raw model response given to the response cleaning alone
MaxValueLen == 1   \* longest value, in tokens, substituted into a prompt template
MaxReqs == 2       \* number of requests
MaxLangs == 2      \* longest language list of a configuration
MaxDetected == 2   \* most languages a language detection reports

-----------------------------------------------------------------------------
(* Values *)

\* JavaScript's undefined / null, where a string is expected
Undefined == "undefined"

\* No function is being called on its own
NoCall == [fn |-> "none"]

\* background.js line 48: let config = null; also a configuration that is undefined
NullConfig == [isNull |-> TRUE]

RECURSIVE SeqsUpTo(_, _)
SeqsUpTo(S, n) ==
    IF n = 0 THEN {<<>>}
    ELSE LET shorter == SeqsUpTo(S, n - 1)
         IN shorter \cup {Append(s, x) : s \in {t \in shorter : Len(t) = n - 1}, x \in S}

SetMin(S) == CHOOSE x \in S : \A y \in S : x <= y

\* Model Descriptors: { id, default } of a model list entry
ModelIds == {"ModelX", "ModelY"}
Models == [id : ModelIds, default : BOOLEAN]
NoModel == [id |-> Undefined, default |-> FALSE]

\* Language codes a request may carry, and those a preference entry may name
KnownLangs == {"en", "ja"}
TargetLangs == {"ja", "es"}
LanguagePairs == [source : KnownLangs, target : {"ja"}, preferredModel : ModelIds]

\* fallbackModelId: a model id, none, or an id that no model list holds (so that a
\* dangling fallbackModelId occurs beside two configured models)
FallbackIds == ModelIds \cup {"ModelZ", Undefined}

\* backendSettings.ollama; present = FALSE: the key is missing from the configuration;
\* hasModels = FALSE: the settings carry no models list
OllamaConfigs ==
    [present : {TRUE}, hasModels : {TRUE},
     models : SeqsUpTo(Models, MaxModels),
     languagePairs : SeqsUpTo(LanguagePairs, MaxPairs),
     fallbackModelId : FallbackIds]

\* ollama.js line 9: let ollamaConfig = {}
EmptyOllamaConfig ==
    [present |-> TRUE, hasModels |-> FALSE, models |-> <<>>,
     languagePairs |-> <<>>, fallbackModelId |-> Undefined]

\* ollama.js lines 26-31: the minimal default of initialize()
MinimalOllamaConfig ==
    [present |-> TRUE, hasModels |-> TRUE, models |-> <<>>,
     languagePairs |-> <<>>, fallbackModelId |-> Undefined]

NoOllamaSettings ==
    [present |-> FALSE, hasModels |-> FALSE, models |-> <<>>,
     languagePairs |-> <<>>, fallbackModelId |-> Undefined]

\* backendSettings.chromeApi; present = FALSE: the key is missing from the configuration
ChromeApiConfigs == [present : BOOLEAN, detectOnly : BOOLEAN]

\* chromeApi.js: let chromeApiConfig = {}
EmptyChromeApiConfig == [present |-> TRUE, detectOnly |-> FALSE]

-----------------------------------------------------------------------------
(* ollama.js: model selection *)

\* models.find(m => m.id === id): the first model of the list with this id
FindModel(id) ==
    LET ms == ollamaConfig.models
        hits == {i \in 1..Len(ms) : ms[i].id = id}
    IN IF hits = {} THEN NoModel ELSE ms[SetMin(hits)]

\* Variant: the default model is the first model, whatever the flags
getDefaultModelFirst ==
    IF Len(ollamaConfig.models) > 0 THEN ollamaConfig.models[1] ELSE NoModel

getDefaultModel ==
    LET ms == ollamaConfig.models
        flagged == {i \in 1..Len(ms) : ms[i].default = TRUE}
    IN IF flagged # {} THEN ms[SetMin(flagged)]
       ELSE IF Len(ms) > 0 THEN ms[1]
       ELSE NoModel

\* Variant: a fallbackModelId that names no model yields no fallback model
getFallbackModelNoDefault ==
    IF ollamaConfig.fallbackModelId = Undefined THEN NoModel
    ELSE FindModel(ollamaConfig.fallbackModelId)

getFallbackModel ==
    IF ollamaConfig.fallbackModelId = Undefined THEN getDefaultModel
    ELSE LET fallback == FindModel(ollamaConfig.fallbackModelId)
         IN IF fallback # NoModel THEN fallback ELSE getDefaultModel

\* languagePairs.find(p => p.source === s && p.target === t): index of the first
\* matching entry, 0 when there is none
FindPair(sourceLangCode, targetLangCode) ==
    LET ps == ollamaConfig.languagePairs
        hits == {i \in 1..Len(ps) : ps[i].source = sourceLangCode
                                    /\ ps[i].target = targetLangCode}
    IN IF hits = {} THEN 0 ELSE SetMin(hits)

\* Variant: the pair is looked up with source and target exchanged
getPreferredModelSwapped(sourceLangCode, targetLangCode) ==
    IF sourceLangCode = Undefined \/ sourceLangCode = "auto" THEN getDefaultModel
    ELSE LET pair == FindPair(targetLangCode, sourceLangCode)
             model == IF pair = 0 THEN NoModel
                      ELSE FindModel(ollamaConfig.languagePairs[pair].preferredModel)
         IN IF model # NoModel THEN model ELSE getDefaultModel

\* Variant: a preference entry that names no model of the list yields no model
getPreferredModelStrict(sourceLangCode, targetLangCode) ==
    IF sourceLangCode = Undefined \/ sourceLangCode = "auto" THEN getDefaultModel
    ELSE LET pair == FindPair(sourceLangCode, targetLangCode)
         IN IF pair = 0 THEN getDefaultModel
            ELSE FindModel(ollamaConfig.languagePairs[pair].preferredModel)

getPreferredModel(sourceLangCode, targetLangCode) ==
    IF sourceLangCode = Undefined \/ sourceLangCode = "auto" THEN getDefaultModel
    ELSE LET pair == FindPair(sourceLangCode, targetLangCode)
             model == IF pair = 0 THEN NoModel
                      ELSE FindModel(ollamaConfig.languagePairs[pair].preferredModel)
         IN IF model # NoModel THEN model ELSE getDefaultModel

-----------------------------------------------------------------------------
(* ollama.js: callOllamaApi *)

\* A raw model response is a sequence of tokens:
\*   "P" one of the preamble phrases matched by the regular expression of line 177
\*   "Q" a quote character, " or '
\*   "s" a whitespace character
\*   "a" any other character
Tokens == {"P", "Q", "s", "a"}
Responses == SeqsUpTo(Tokens, MaxRespLen)

\* What the network does with one fetch: it rejects, answers with a non-2xx status,
\* or answers 2xx with a body whose response field is raw (<<>>: missing or empty)
NetOutcomes ==
    {[kind |-> "networkError", response |-> <<>>],
     [kind |-> "badStatus", response |-> <<>>]}
    \cup {[kind |-> "ok", response |-> r] : r \in Responses}

\* replace(/^(Here's the translation:|...|Translation:)/i, '')
StripPreamble(t) == IF Len(t) > 0 /\ t[1] = "P" THEN Tail(t) ELSE t

\* String.prototype.trim
RECURSIVE Trim(_)
Trim(t) ==
    IF Len(t) > 0 /\ t[1] = "s" THEN Trim(Tail(t))
    ELSE IF Len(t) > 0 /\ t[Len(t)] = "s" THEN Trim(SubSeq(t, 1, Len(t) - 1))
    ELSE t

\* replace(/^["']|["']$/g, ''): a quote at the start, and a quote at the end that is
\* not the character the first alternative has consumed
StripQuotes(t) ==
    LET n == Len(t)
        lead == IF n > 0 /\ t[1] = "Q" THEN 1 ELSE 0
        trail == IF n > lead /\ t[n] = "Q" THEN 1 ELSE 0
    IN SubSeq(t, 1 + lead, n - trail)

\* Variant: quotes are removed as long as there are any at either end
RECURSIVE CleanResponseGreedy(_)
CleanResponseGreedy(raw) ==
    LET once == StripQuotes(Trim(StripPreamble(raw)))
    IN IF once # <<>> /\ (once[1] = "Q" \/ once[Len(once)] = "Q")
       THEN CleanResponseGreedy(once)
       ELSE once

\* lines 176-178
CleanResponse(raw) == StripQuotes(Trim(StripPreamble(raw)))

NetworkErrorMessage == <<"Failed to fetch">>
ApiErrorMessage == <<"API error ", "status", ": ", "statusText">>
EmptyTranslationMessage == <<"Received empty translation from Ollama.">>

\* Variant: the empty translation is returned, not thrown
callOllamaApiReturnsEmpty(outcome) ==
    IF outcome.kind = "networkError"
    THEN [threw |-> TRUE, response |-> "none", raw |-> <<>>, translation |-> <<>>,
          message |-> NetworkErrorMessage]
    ELSE IF outcome.kind = "badStatus"
    THEN [threw |-> TRUE, response |-> "notOk", raw |-> <<>>, translation |-> <<>>,
          message |-> ApiErrorMessage]
    ELSE [threw |-> FALSE, response |-> "ok", raw |-> outcome.response,
          translation |-> CleanResponse(outcome.response), message |-> <<>>]

\* The outcome of callOllamaApi given what the network did: the cleaned translation,
\* or the error it throws. response: whether fetch resolved and response.ok held;
\* translation: the local variable of lines 176-178
callOllamaApi(outcome) ==
    IF outcome.kind = "networkError"
    THEN [threw |-> TRUE, response |-> "none", raw |-> <<>>, translation |-> <<>>,
          message |-> NetworkErrorMessage]
    ELSE IF outcome.kind = "badStatus"
    THEN [threw |-> TRUE, response |-> "notOk", raw |-> <<>>, translation |-> <<>>,
          message |-> ApiErrorMessage]
    ELSE LET translation == CleanResponse(outcome.response)
         IN IF translation = <<>>
            THEN [threw |-> TRUE, response |-> "ok", raw |-> outcome.response,
                  translation |-> translation, message |-> EmptyTranslationMessage]
            ELSE [threw |-> FALSE, response |-> "ok", raw |-> outcome.response,
                  translation |-> translation, message |-> <<>>]

-----------------------------------------------------------------------------
(* Requests *)

Requests == 1..MaxReqs

\* The fields of a message that the translate senders and handlers name
\* and the fields the other handlers read: config, backend, modelId
NoPayload ==
    [sourceLang |-> Undefined, targetLang |-> Undefined,
     sourceLangCode |-> Undefined, targetLangCode |-> Undefined,
     config |-> NullConfig, backend |-> Undefined, modelId |-> Undefined]


\* Text of a failure: a sequence of fragments; ${...} substitutions are fragments
Mentions(text, id) == \E k \in 1..Len(text) : text[k] = id

NoResult == [pending |-> TRUE]

NoDetection == [pending |-> TRUE]

\* pc: idle | awaitPreferred | awaitFallback | awaitDetect | awaitStatus |
\*     awaitModelStatus | awaitStore | awaitConfig | awaitTranslateText | done
\* oldBackend: the local of handleConfigUpdate; toStore: the value handed to
\* chrome.storage.local.set; moduleBefore, backendBefore: the active provider and
\* config.activeBackend when the message arrived; alone: every request before this
\* one had been answered when it arrived
\* detection: what chrome.i18n.detectLanguage reported; detectedSourceLang: the local
\* of chromeApi.js translate; detectionResult: what its detectLanguage resolved with
\* via: none | message (through onMessageReceived) | direct (a call of translate)
IdleRequest ==
    [pc |-> "idle", via |-> "none", action |-> Undefined, payload |-> NoPayload,
     provider |-> Undefined, sourceLangCode |-> Undefined, targetLangCode |-> Undefined,
     preferredModel |-> NoModel, fallbackModel |-> NoModel,
     fetches |-> <<>>, result |-> NoResult, responses |-> <<>>,
     oldBackend |-> Undefined, toStore |-> NullConfig,
     moduleBefore |-> Undefined, backendBefore |-> Undefined, alone |-> TRUE,
     detection |-> NoDetection, detectedSourceLang |-> Undefined,
     detectionResult |-> NoResult]

\* One call of callOllamaApi: the model it names; whether it is pending, has returned
\* or has thrown; whether the fetch got a response and response.ok held; data.response
\* as received (raw) and cleaned (translation); the message of the error thrown
Fetch(modelId) ==
    [model |-> modelId, state |-> "pending", response |-> "pending",
     raw |-> <<>>, translation |-> <<>>, message |-> <<>>]

\* The provider function returns value r: a direct caller has it; the Coordinator's
\* handler resumes after its await and passes it to sendResponse
\* (background.js lines 383 and 407-410)
Return(q, r) ==
    [q EXCEPT !.pc = "done",
              !.result = r,
              !.responses =
                  IF q.via # "message" THEN @
                  ELSE IF q.action = "checkStatus"
                  THEN Append(@, [success |-> TRUE] @@ r)
                  ELSE Append(@, r)]

-----------------------------------------------------------------------------
(* ollama.js: translate *)

NotInitializedError == <<"Ollama backend not properly initialized or no models configured.">>
NoSuitableModelError == <<"No suitable Ollama model found for this language pair.">>

\* lines 204-236: translate up to its first await, the fetch for the preferred model
OllamaTranslateBegin(q, sourceLangCode, targetLangCode) ==
    LET q1 == [q EXCEPT !.provider = "ollama",
                        !.sourceLangCode = sourceLangCode,
                        !.targetLangCode = targetLangCode]
        preferredModel == getPreferredModel(sourceLangCode, targetLangCode)
        fallbackModel == getFallbackModel
    IN IF ~ollamaConfig.hasModels \/ Len(ollamaConfig.models) = 0
       THEN Return(q1, [success |-> FALSE, error |-> NotInitializedError])
       ELSE IF preferredModel = NoModel
       THEN Return(q1, [success |-> FALSE, error |-> NoSuitableModelError])
       ELSE [q1 EXCEPT !.pc = "awaitPreferred",
                       !.preferredModel = preferredModel,
                       !.fallbackModel = fallbackModel,
                       !.fetches = Append(@, Fetch(preferredModel.id))]

\* The pending call of callOllamaApi ends
EndFetch(q0, called) ==
    [q0 EXCEPT !.fetches[Len(q0.fetches)] =
        [@ EXCEPT !.state = IF called.threw THEN "threw" ELSE "returned",
                  !.response = called.response,
                  !.raw = called.raw,
                  !.translation = called.translation,
                  !.message = called.message]]

\* Variant: the success result names the fallback model
OllamaAfterPreferredNamesFallback(q0, outcome) ==
    LET called == callOllamaApi(outcome)
        q == EndFetch(q0, called)
    IN IF ~called.threw
       THEN Return(q, [success |-> TRUE, translation |-> called.translation,
                       usedFallback |-> FALSE, modelUsed |-> q.fallbackModel.id])
       ELSE IF q.fallbackModel # NoModel /\ q.fallbackModel.id # q.preferredModel.id
       THEN [q EXCEPT !.pc = "awaitFallback",
                      !.fetches = Append(@, Fetch(q.fallbackModel.id))]
       ELSE Return(q, [success |-> FALSE,
                       error |-> <<"Translation failed with model ", q.preferredModel.id,
                                   ". Error: ">> \o called.message])

\* Variant: the fallback model is tried whether or not it is the preferred model
OllamaAfterPreferredAlwaysRetries(q0, outcome) ==
    LET called == callOllamaApi(outcome)
        q == EndFetch(q0, called)
    IN IF ~called.threw
       THEN Return(q, [success |-> TRUE, translation |-> called.translation,
                       usedFallback |-> FALSE, modelUsed |-> q.preferredModel.id])
       ELSE IF q.fallbackModel # NoModel
       THEN [q EXCEPT !.pc = "awaitFallback",
                      !.fetches = Append(@, Fetch(q.fallbackModel.id))]
       ELSE Return(q, [success |-> FALSE,
                       error |-> <<"Translation failed with model ", q.preferredModel.id,
                                   ". Error: ">> \o called.message])

\* Variant: the fallback model is resolved when the preferred model's call has failed,
\* from the settings the provider has at that time
OllamaAfterPreferredLateFallback(q0, outcome) ==
    LET called == callOllamaApi(outcome)
        q == [EndFetch(q0, called) EXCEPT !.fallbackModel = getFallbackModel]
    IN IF ~called.threw
       THEN Return(q, [success |-> TRUE, translation |-> called.translation,
                       usedFallback |-> FALSE, modelUsed |-> q.preferredModel.id])
       ELSE IF q.fallbackModel # NoModel /\ q.fallbackModel.id # q.preferredModel.id
       THEN [q EXCEPT !.pc = "awaitFallback",
                      !.fetches = Append(@, Fetch(q.fallbackModel.id))]
       ELSE Return(q, [success |-> FALSE,
                       error |-> <<"Translation failed with model ", q.preferredModel.id,
                                   ". Error: ">> \o called.message])

\* lines 236-272: the preferred model's call has ended
OllamaAfterPreferred(q0, outcome) ==
    LET called == callOllamaApi(outcome)
        q == EndFetch(q0, called)
    IN IF ~called.threw
       THEN Return(q, [success |-> TRUE, translation |-> called.translation,
                       usedFallback |-> FALSE, modelUsed |-> q.preferredModel.id])
       ELSE IF q.fallbackModel # NoModel /\ q.fallbackModel.id # q.preferredModel.id
       THEN [q EXCEPT !.pc = "awaitFallback",
                      !.fetches = Append(@, Fetch(q.fallbackModel.id))]
       ELSE Return(q, [success |-> FALSE,
                       error |-> <<"Translation failed with model ", q.preferredModel.id,
                                   ". Error: ">> \o called.message])

\* Variant: the success result of the fallback path names the preferred model
OllamaAfterFallbackNamesPreferred(q0, outcome) ==
    LET called == callOllamaApi(outcome)
        q == EndFetch(q0, called)
    IN IF ~called.threw
       THEN Return(q, [success |-> TRUE, translation |-> called.translation,
                       usedFallback |-> TRUE, modelUsed |-> q.preferredModel.id])
       ELSE Return(q, [success |-> FALSE,
                       error |-> <<"Translation failed with both preferred (",
                                   q.preferredModel.id, ") and fallback (",
                                   q.fallbackModel.id, ") models.">>])

\* Variant: the failure of both names the preferred model alone
OllamaAfterFallbackNamesOne(q0, outcome) ==
    LET called == callOllamaApi(outcome)
        q == EndFetch(q0, called)
    IN IF ~called.threw
       THEN Return(q, [success |-> TRUE, translation |-> called.translation,
                       usedFallback |-> TRUE, modelUsed |-> q.fallbackModel.id])
       ELSE Return(q, [success |-> FALSE,
                       error |-> <<"Translation failed with model ", q.preferredModel.id,
                                   ". Error: ">> \o called.message])

\* Variant: a failed fallback call is tried again
OllamaAfterFallbackRetries(q0, outcome) ==
    LET called == callOllamaApi(outcome)
        q == EndFetch(q0, called)
    IN IF ~called.threw
       THEN Return(q, [success |-> TRUE, translation |-> called.translation,
                       usedFallback |-> TRUE, modelUsed |-> q.fallbackModel.id])
       ELSE [q EXCEPT !.pc = "awaitFallback",
                      !.fetches = Append(@, Fetch(q.fallbackModel.id))]

\* Variant: the success result names the fallback model of the settings the provider
\* has when the call ends
OllamaAfterFallbackNamesCurrent(q0, outcome) ==
    LET called == callOllamaApi(outcome)
        q == EndFetch(q0, called)
    IN IF ~called.threw
       THEN Return(q, [success |-> TRUE, translation |-> called.translation,
                       usedFallback |-> TRUE, modelUsed |-> getFallbackModel.id])
       ELSE Return(q, [success |-> FALSE,
                       error |-> <<"Translation failed with both preferred (",
                                   q.preferredModel.id, ") and fallback (",
                                   q.fallbackModel.id, ") models.">>])

\* lines 252-265: the fallback model's call has ended
OllamaAfterFallback(q0, outcome) ==
    LET called == callOllamaApi(outcome)
        q == EndFetch(q0, called)
    IN IF ~called.threw
       THEN Return(q, [success |-> TRUE, translation |-> called.translation,
                       usedFallback |-> TRUE, modelUsed |-> q.fallbackModel.id])
       ELSE Return(q, [success |-> FALSE,
                       error |-> <<"Translation failed with both preferred (",
                                   q.preferredModel.id, ") and fallback (",
                                   q.fallbackModel.id, ") models.">>])

\* A caller invokes the provider's translate(text, sourceLangCode, targetLangCode, style)
translate(i, sourceLangCode, targetLangCode) ==
    /\ req[i].pc = "idle"
    /\ req' = [req EXCEPT ![i] =
                 OllamaTranslateBegin([@ EXCEPT !.via = "direct"],
                                      sourceLangCode, targetLangCode)]
    /\ UNCHANGED coordinator

PreferredReply(i, outcome) ==
    /\ req[i].pc = "awaitPreferred"
    /\ req' = [req EXCEPT ![i] = OllamaAfterPreferred(@, outcome)]
    /\ UNCHANGED coordinator

FallbackReply(i, outcome) ==
    /\ req[i].pc = "awaitFallback"
    /\ req' = [req EXCEPT ![i] = OllamaAfterFallback(@, outcome)]
    /\ UNCHANGED coordinator

-----------------------------------------------------------------------------
(* The local-model provider on its own: initialized with any configuration, then *)
(* called by translate                                                          *)

\* Source codes a caller may pass: the sentinel, none, or a language
SourceArgs == {"auto", Undefined} \cup KnownLangs

ProviderInit ==
    /\ ollamaConfig \in OllamaConfigs
    /\ config = [activeBackend |-> "ollama", ollama |-> ollamaConfig,
                 supportedLanguages |-> <<>>, disabledLanguages |-> <<>>, missing |-> {}]
    /\ activeBackendModule = "ollama"
    /\ listening = TRUE
    /\ initDone = TRUE
    /\ req = [i \in Requests |-> IdleRequest]
    /\ supportedLanguagesList = <<>>
    /\ storage = NullConfig
    /\ configFile = [ok |-> FALSE, config |-> NullConfig]
    /\ fresh = TRUE
    /\ chromeApiConfig = EmptyChromeApiConfig
    /\ call = NoCall

ProviderNext ==
    \/ \E s \in SourceArgs, t \in TargetLangs : translate(1, s, t)
    \/ \E o \in NetOutcomes : PreferredReply(1, o)
    \/ \E o \in NetOutcomes : FallbackReply(1, o)

SpecProvider == ProviderInit /\ [][ProviderNext]_vars

-----------------------------------------------------------------------------
(* ollama.js: initialize and checkStatus *)

\* lines 16-46. initialize stores the provider's slice of the configuration (or the
\* minimal default when there is none) and then reads models.map (line 40), which throws
\* when the stored settings carry no models list
OllamaInitialize(cfg) ==
    LET stored == IF cfg.ollama.present THEN cfg.ollama ELSE MinimalOllamaConfig
    IN [threw |-> ~stored.hasModels, ollamaConfig |-> stored]

StatusNotInitialized ==
    [status |-> "error",
     message |-> <<"Ollama backend not properly initialized or no models configured.">>]

\* lines 281-300: checkStatus up to its await, the "Ping" call for the default model
OllamaCheckStatusBegin(q) ==
    LET q1 == [q EXCEPT !.provider = "ollama"]
        modelToCheck == getDefaultModel
    IN IF ~ollamaConfig.hasModels \/ Len(ollamaConfig.models) = 0
       THEN Return(q1, StatusNotInitialized)
       ELSE IF modelToCheck = NoModel
       THEN Return(q1, [status |-> "error",
                        message |-> <<"No default Ollama model configured for status check.">>])
       ELSE [q1 EXCEPT !.pc = "awaitStatus",
                       !.preferredModel = modelToCheck,
                       !.fetches = Append(@, Fetch(modelToCheck.id))]

\* Variant: a failed "Ping" call is tried again
OllamaAfterStatusRetries(q0, outcome) ==
    LET called == callOllamaApi(outcome)
        q == EndFetch(q0, called)
    IN IF ~called.threw
       THEN Return(q, [status |-> "running",
                       message |-> <<"Ollama is running with model ", q.preferredModel.id>>])
       ELSE [q EXCEPT !.pc = "awaitStatus",
                      !.fetches = Append(@, Fetch(q.preferredModel.id))]

\* lines 300-311: the "Ping" call has ended
OllamaAfterStatus(q0, outcome) ==
    LET called == callOllamaApi(outcome)
        q == EndFetch(q0, called)
    IN IF ~called.threw
       THEN Return(q, [status |-> "running",
                       message |-> <<"Ollama is running with model ", q.preferredModel.id>>])
       ELSE Return(q, [status |-> "error",
                       message |-> <<"Failed to connect to Ollama. Ensure Ollama is running and the model ",
                                     q.preferredModel.id, " exists.">>])

\* lines 320-333: checkModelStatus up to its await, the "Ping" call for the model
OllamaCheckModelStatusBegin(q, modelId) ==
    LET q1 == [q EXCEPT !.provider = "ollama"]
        model == FindModel(modelId)
    IN IF model = NoModel
       THEN Return(q1, [status |-> "error",
                        message |-> <<"Model ", modelId, " not found in configuration.">>])
       ELSE [q1 EXCEPT !.pc = "awaitModelStatus",
                       !.preferredModel = model,
                       !.fetches = Append(@, Fetch(modelId))]

\* lines 333-345: the "Ping" call has ended
OllamaAfterModelStatus(q0, outcome) ==
    LET called == callOllamaApi(outcome)
        q == EndFetch(q0, called)
    IN IF ~called.threw
       THEN Return(q, [status |-> "running",
                       message |-> <<"Model ", q.preferredModel.id, " is available">>])
       ELSE Return(q, [status |-> "error",
                       message |-> <<"Model ", q.preferredModel.id,
                                     " is not available: ">> \o called.message])

StatusReply(i, outcome) ==
    /\ req[i].pc = "awaitStatus"
    /\ req' = [req EXCEPT ![i] = OllamaAfterStatus(@, outcome)]
    /\ UNCHANGED coordinator

\* The model-status request to the server has ended
ModelStatusReply(i, outcome) ==
    /\ req[i].pc = "awaitModelStatus"
    /\ req' = [req EXCEPT ![i] = OllamaAfterModelStatus(@, outcome)]
    /\ UNCHANGED coordinator

-----------------------------------------------------------------------------
(* claudeshot/backends/chromeApi.js *)

\* What chrome.i18n.detectLanguage reports: an error (chrome.runtime.lastError is set),
\* or result.languages, a list of { language, percentage }, possibly empty
DetectedLanguages == [language : KnownLangs, percentage : {40, 60}]

Detections ==
    {[error |-> TRUE, languages |-> <<>>]}
    \cup {[error |-> FALSE, languages |-> l] : l \in SeqsUpTo(DetectedLanguages, MaxDetected)}

\* languages.sort((a, b) => b.percentage - a.percentage)[0]: the sort is stable, so the
\* first of the entries with the highest percentage
TopLanguage(languages) ==
    languages[SetMin({k \in 1..Len(languages) :
                        \A j \in 1..Len(languages) :
                            languages[j].percentage <= languages[k].percentage})]

ChromeNotImplemented(q, detectedSourceLang) ==
    Return(q, [success |-> FALSE,
               error |-> <<"Chrome API translation from ", detectedSourceLang, " to ",
                           q.targetLangCode, " is not implemented.">>,
               detectedSourceLang |->
                   IF detectedSourceLang # "auto" THEN detectedSourceLang ELSE Undefined])

\* lines 25-41 and 63-71: translate up to the await of the language detection, or to its
\* end when the source is given
ChromeTranslateBegin(q, sourceLangCode, targetLangCode) ==
    LET q1 == [q EXCEPT !.provider = "chromeApi",
                        !.sourceLangCode = sourceLangCode,
                        !.targetLangCode = targetLangCode,
                        !.detectedSourceLang = sourceLangCode]
    IN IF sourceLangCode = "auto"
       THEN [q1 EXCEPT !.pc = "awaitDetect"]
       ELSE ChromeNotImplemented(q1, sourceLangCode)

\* lines 43-71: the detection has ended
ChromeAfterDetect(q0, detection) ==
    LET detectedSourceLang == IF detection.languages = <<>> THEN "auto"
                              ELSE TopLanguage(detection.languages).language
        q == [q0 EXCEPT !.detection = detection]
    IN IF detection.error
       THEN Return(q, [success |-> FALSE,
                       error |-> <<"Language detection failed: ", "lastError.message">>])
       ELSE ChromeNotImplemented([q EXCEPT !.detectedSourceLang = detectedSourceLang],
                                 detectedSourceLang)

DetectReply(i, detection) ==
    /\ req[i].pc = "awaitDetect"
    /\ req' = [req EXCEPT ![i] = ChromeAfterDetect(@, detection)]
    /\ UNCHANGED coordinator

\* lines 80-85
ChromeCheckStatus(q) == Return([q EXCEPT !.provider = "chromeApi"], [status |-> "running"])

-----------------------------------------------------------------------------
(* background.js: configuration and start-up *)

\* line 34: the backends that are imported and registered
backendModules == {"ollama", "chromeApi"}

NoModule == "none"

\* An entry of supportedLanguages or disabledLanguages
Lang(c, e) == [code |-> c, enabled |-> e]

\* lines 53-84. A configuration object: activeBackend (Undefined: the key is missing),
\* backendSettings.ollama, the two language lists, and the keys among
\* backendSettings, supportedLanguages, disabledLanguages that the object does not have
defaultConfig ==
    [activeBackend |-> "ollama",
     ollama |-> [present |-> TRUE, hasModels |-> TRUE,
                 models |-> <<[id |-> "gemma3:1b", default |-> TRUE]>>,
                 languagePairs |-> <<>>,
                 fallbackModelId |-> "gemma3:1b"],
     supportedLanguages |-> <<Lang("auto", TRUE), Lang("en", TRUE),
                              Lang("ja", TRUE), Lang("es", TRUE)>>,
     disabledLanguages |-> <<>>,
     missing |-> {}]

ModelX == [id |-> "ModelX", default |-> FALSE]
ModelY == [id |-> "ModelY", default |-> TRUE]

\* The Ollama settings a configuration file may hold: none; settings without a models
\* list; or a models list (empty, or ModelY as default and ModelX), with or without a
\* preference of ModelX for en -> ja, and with ModelX or nothing as fallbackModelId
BundledOllamaSettings ==
    {NoOllamaSettings, EmptyOllamaConfig}
    \cup [present : {TRUE}, hasModels : {TRUE},
          models : {<<>>, <<ModelY, ModelX>>},
          languagePairs : {<<>>, <<[source |-> "en", target |-> "ja",
                                    preferredModel |-> "ModelX"]>>},
          fallbackModelId : {"ModelX", Undefined}]

\* The language lists a configuration file may hold: both keys missing, or the enabled
\* languages en, ja with fr and (again) en among the disabled ones
BundledLanguages ==
    {[supportedLanguages |-> <<>>, disabledLanguages |-> <<>>,
      missing |-> {"supportedLanguages", "disabledLanguages"}],
     [supportedLanguages |-> <<Lang("en", TRUE), Lang("ja", TRUE)>>,
      disabledLanguages |-> <<Lang("fr", TRUE), Lang("en", TRUE)>>,
      missing |-> {}]}

\* A configuration file: a backend name, provider settings and language lists
ConfigFile(b, o, l) ==
    [activeBackend |-> b, ollama |-> o,
     supportedLanguages |-> l.supportedLanguages,
     disabledLanguages |-> l.disabledLanguages,
     missing |-> l.missing]

\* The provider settings of the scenarios: ModelY as default, ModelX preferred for
\* en -> ja and as fallback
ScenarioOllamaSettings ==
    [present |-> TRUE, hasModels |-> TRUE, models |-> <<ModelY, ModelX>>,
     languagePairs |-> <<[source |-> "en", target |-> "ja", preferredModel |-> "ModelX"]>>,
     fallbackModelId |-> "ModelX"]

\* A configuration file that is an empty object: {}
EmptyConfigFile ==
    [activeBackend |-> Undefined, ollama |-> NoOllamaSettings,
     supportedLanguages |-> <<>>, disabledLanguages |-> <<>>,
     missing |-> {"backendSettings", "supportedLanguages", "disabledLanguages"}]

\* What config.json may hold: for the local-model provider, any of the provider
\* settings, and the scenario's settings without language lists; and with the
\* scenario's settings, or with settings that are missing or without a models list,
\* any backend name; and the empty object.
\* activeBackend = Undefined: the key is missing; "another": a backend that is not
\* registered
BundledConfigs ==
    {ConfigFile("ollama", o, l) :
            o \in BundledOllamaSettings,
            l \in {x \in BundledLanguages : x.missing = {}}}
    \cup {ConfigFile("ollama", ScenarioOllamaSettings, l) : l \in BundledLanguages}
    \cup {ConfigFile(b, o, l) :
            b \in backendModules \cup {"another", Undefined},
            o \in {ScenarioOllamaSettings, NoOllamaSettings, EmptyOllamaConfig},
            l \in {x \in BundledLanguages : x.missing = {}}}
    \cup {EmptyConfigFile}

\* line 136: config = { ...defaultConfig, ...loadedConfig }
MergeConfig(base, loaded) ==
    [activeBackend |-> IF loaded.activeBackend = Undefined THEN base.activeBackend
                       ELSE loaded.activeBackend,
     ollama |-> IF "backendSettings" \in loaded.missing THEN base.ollama
                ELSE loaded.ollama,
     supportedLanguages |-> IF "supportedLanguages" \in loaded.missing
                            THEN base.supportedLanguages ELSE loaded.supportedLanguages,
     disabledLanguages |-> IF "disabledLanguages" \in loaded.missing
                           THEN base.disabledLanguages ELSE loaded.disabledLanguages,
     missing |-> base.missing \cap loaded.missing]

\* lines 139-146 (and 159-166, 466-473): the catalog of a configuration: its
\* supportedLanguages, then each disabled language whose code the list does not hold
\* yet, with enabled = false
RECURSIVE PushDisabled(_, _)
PushDisabled(list, disabled) ==
    IF disabled = <<>> THEN list
    ELSE LET lang == Head(disabled)
             held == \E k \in 1..Len(list) : list[k].code = lang.code
         IN PushDisabled(IF held THEN list ELSE Append(list, Lang(lang.code, FALSE)),
                         Tail(disabled))

BuildCatalog(cfg) ==
    PushDisabled(IF "supportedLanguages" \in cfg.missing THEN <<>>
                 ELSE cfg.supportedLanguages,
                 IF "disabledLanguages" \in cfg.missing THEN <<>>
                 ELSE cfg.disabledLanguages)

\* Variant: a backend name without a registry entry is passed over without an error
loadActiveBackendIgnoresUnknown(cfg, module, settings) ==
    IF cfg = NullConfig \/ cfg.activeBackend = Undefined
    THEN [threw |-> TRUE, module |-> module, ollamaConfig |-> settings]
    ELSE IF cfg.activeBackend \notin backendModules
    THEN [threw |-> FALSE, module |-> module, ollamaConfig |-> settings]
    ELSE IF cfg.activeBackend = "ollama"
    THEN [threw |-> OllamaInitialize(cfg).threw, module |-> "ollama",
          ollamaConfig |-> OllamaInitialize(cfg).ollamaConfig]
    ELSE [threw |-> FALSE, module |-> cfg.activeBackend, ollamaConfig |-> settings]

\* lines 173-217: loadActiveBackend with configuration cfg, from the active module and
\* provider settings given; what it leaves behind and whether it threw
loadActiveBackend(cfg, module, settings) ==
    IF cfg = NullConfig \/ cfg.activeBackend = Undefined
    THEN [threw |-> TRUE, module |-> module, ollamaConfig |-> settings]
    ELSE IF cfg.activeBackend \notin backendModules
    THEN [threw |-> TRUE, module |-> module, ollamaConfig |-> settings]
    ELSE IF cfg.activeBackend = "ollama"
    THEN [threw |-> OllamaInitialize(cfg).threw, module |-> "ollama",
          ollamaConfig |-> OllamaInitialize(cfg).ollamaConfig]
    ELSE [threw |-> FALSE, module |-> cfg.activeBackend, ollamaConfig |-> settings]

\* The message of the error loadActiveBackend throws (lines 175, 186, 212)
LoadError(cfg) ==
    IF cfg = NullConfig \/ cfg.activeBackend = Undefined
    THEN <<"Configuration or activeBackend not defined.">>
    ELSE IF cfg.activeBackend \notin backendModules
    THEN <<"Backend module \"", cfg.activeBackend, "\" is not registered or failed to import.">>
    ELSE <<"TypeError">>

\* What fetching and parsing config.json gives: a failure, or the configuration read
ConfigFetches ==
    {[ok |-> FALSE, config |-> NullConfig]}
    \cup {[ok |-> TRUE, config |-> c] : c \in BundledConfigs}

\* loadAndProcessConfig without lines 158-166: a failed load leaves the catalog empty
loadAndProcessConfigNoCatalog(fetched) ==
    LET cfg == IF fetched.ok THEN MergeConfig(defaultConfig, fetched.config)
               ELSE defaultConfig
    IN [threw |-> ~fetched.ok, config |-> cfg,
        catalog |-> IF fetched.ok THEN BuildCatalog(cfg) ELSE <<>>]

\* lines 123-170: loadAndProcessConfig, given what fetching config.json gave: the
\* configuration and the catalog it leaves behind, and whether it threw
loadAndProcessConfig(fetched) ==
    LET cfg == IF fetched.ok THEN MergeConfig(defaultConfig, fetched.config)
               ELSE defaultConfig
    IN [threw |-> ~fetched.ok, config |-> cfg, catalog |-> BuildCatalog(cfg)]

\* lines 89-120: initialize(); the listeners do not exist before it ends, so nothing
\* runs between its awaits
initialize ==
    LET loaded == loadAndProcessConfig(configFile)
        cfg == loaded.config
        first == IF loaded.threw
                 THEN [threw |-> TRUE, module |-> activeBackendModule,
                       ollamaConfig |-> ollamaConfig]
                 ELSE loadActiveBackend(cfg, activeBackendModule, ollamaConfig)
        retry == loadActiveBackend(cfg, first.module, first.ollamaConfig)
        retried == first.threw /\ first.module = NoModule /\ cfg.activeBackend # Undefined
        last == IF retried THEN retry ELSE first
    IN /\ ~initDone
       /\ initDone' = TRUE
       /\ config' = cfg
       /\ supportedLanguagesList' = loaded.catalog
       /\ activeBackendModule' = last.module
       /\ ollamaConfig' = last.ollamaConfig
       /\ listening' = IF ~first.threw THEN TRUE
                       ELSE IF retried THEN ~retry.threw
                       ELSE first.module # NoModule
       /\ fresh' = TRUE
       /\ UNCHANGED <<req, storage, configFile, chromeApiConfig, call>>

\* The service worker is stopped while no request is being handled and started again
\* later: the script runs from its top (lines 48-50, 536); chrome.storage.local and the
\* packaged file stay. (The requests answered so far stay on record.)
Restart ==
    /\ initDone
    /\ ~fresh
    /\ \A i \in DOMAIN req : req[i].pc \in {"idle", "done"}
    /\ initDone' = FALSE
    /\ config' = NullConfig
    /\ activeBackendModule' = NoModule
    /\ supportedLanguagesList' = <<>>
    /\ ollamaConfig' = EmptyOllamaConfig
    /\ listening' = FALSE
    /\ fresh' = TRUE
    /\ UNCHANGED <<req, storage, configFile, chromeApiConfig, call>>

-----------------------------------------------------------------------------
(* background.js: messages *)

\* The messages of the extension's senders: content.js names the codes sourceLangCode
\* and targetLangCode (part_001 lines 375-380); handleTranslateRequest reads sourceLang
\* and targetLang; popup.js asks for the status with checkBackendStatus (part_002 line 72)
TranslatePayloads ==
    {[p EXCEPT !.sourceLangCode = s, !.targetLangCode = t] :
         p \in {NoPayload}, s \in {"en"}, t \in {"ja"}}
    \cup {[p EXCEPT !.sourceLang = s, !.targetLang = t] :
         p \in {NoPayload}, s \in {Undefined, "en"}, t \in {"ja"}}

\* Provider settings an updateConfig may carry: ModelX alone
UpdatedOllamaSettings ==
    [present |-> TRUE, hasModels |-> TRUE, models |-> <<ModelX>>,
     languagePairs |-> <<>>, fallbackModelId |-> Undefined]

\* The configurations an updateConfig may carry: none, or one naming a registered or an
\* unregistered backend, with provider settings that lack a models list or are
\* complete
UpdateConfigs ==
    {NullConfig}
    \cup {[activeBackend |-> b, ollama |-> o,
           supportedLanguages |-> <<Lang("ja", TRUE)>>,
           disabledLanguages |-> <<Lang("fr", TRUE)>>,
           missing |-> {}] :
              b \in backendModules \cup {"another"},
              o \in {EmptyOllamaConfig, UpdatedOllamaSettings}}

\* line 321: the actions onMessageReceived has a case for
KnownActions ==
    {"translate", "checkStatus", "getConfig", "updateConfig", "resetConfig",
     "switchBackend", "checkModelStatus"}

MessagesIn ==
    {[action |-> "translate", payload |-> p] : p \in TranslatePayloads}
    \cup {[action |-> a, payload |-> NoPayload] :
            a \in {"checkStatus", "checkBackendStatus", "getConfig", "resetConfig"}}
    \cup {[action |-> "updateConfig", payload |-> [NoPayload EXCEPT !.config = c]] :
            c \in UpdateConfigs}
    \cup {[action |-> "switchBackend", payload |-> [NoPayload EXCEPT !.backend = b]] :
            b \in backendModules \cup {"another"}}
    \cup {[action |-> "checkModelStatus", payload |-> [NoPayload EXCEPT !.modelId = m]] :
            m \in {"ModelX", "ModelZ"}}

\* sendResponse(r)
Respond(q, r) == [q EXCEPT !.pc = "done", !.responses = Append(@, r)]

\* A catch block that logs the error and sends nothing
FailSilently(q, message) == [q EXCEPT !.pc = "done"]

\* The catch blocks of the handlers: sendResponse({ success: false, error: ... })
Fail(q, message) == Respond(q, [success |-> FALSE, error |-> message])

NoBackendError == <<"No active translation backend available">>

\* lines 362-391
handleTranslateRequest(q) ==
    LET sourceLang == IF q.payload.sourceLang = Undefined THEN "auto"
                      ELSE q.payload.sourceLang
    IN IF activeBackendModule = NoModule
       THEN Respond(q, [success |-> FALSE, error |-> NoBackendError])
       ELSE IF config = NullConfig
       THEN Fail(q, <<"Translation failed: ", "TypeError">>)
       ELSE IF activeBackendModule = "ollama"
       THEN OllamaTranslateBegin(q, sourceLang, q.payload.targetLang)
       ELSE ChromeTranslateBegin(q, sourceLang, q.payload.targetLang)

\* lines 394-419
handleStatusCheck(q) ==
    IF activeBackendModule = NoModule
    THEN Respond(q, [success |-> FALSE, status |-> "error", message |-> NoBackendError])
    ELSE IF activeBackendModule = "ollama"
    THEN OllamaCheckStatusBegin(q)
    ELSE ChromeCheckStatus(q)

\* lines 422-444; of the registered providers only ollama.js exports checkModelStatus
handleModelStatusCheck(q) ==
    IF activeBackendModule # "ollama"
    THEN Respond(q, [status |-> "error",
                     message |-> <<"Active backend does not support model status checks">>])
    ELSE OllamaCheckModelStatusBegin(q, q.payload.modelId)

\* lines 330-335
handleGetConfig(q) ==
    Respond(q, [success |-> TRUE, config |-> config,
                supportedLanguages |-> supportedLanguagesList])

\* A default case that logs the action and sends nothing
UnknownActionDropped(q) == [q EXCEPT !.pc = "done"]

\* lines 354-357
UnknownAction(q) == Respond(q, [success |-> FALSE, error |-> <<"Unknown action">>])

\* lines 447-454: handleConfigUpdate up to its await of chrome.storage.local.set; the
\* request and the configuration it leaves
handleConfigUpdate(q) ==
    IF config = NullConfig
    THEN [q |-> Fail(q, <<"TypeError">>), config |-> config]
    ELSE [q |-> [q EXCEPT !.pc = "awaitStore",
                          !.oldBackend = config.activeBackend,
                          !.toStore = q.payload.config],
          config |-> q.payload.config]

\* lines 465-478: the end of handleConfigUpdate: the catalog is rebuilt and the
\* request answered
UpdateDone(q, module, settings) ==
    [q |-> Respond(q, [success |-> TRUE]), module |-> module,
     ollamaConfig |-> settings, catalog |-> BuildCatalog(config)]

\* lines 479-482: its catch block
UpdateFailed(q, message, module, settings) ==
    [q |-> Fail(q, message), module |-> module,
     ollamaConfig |-> settings, catalog |-> supportedLanguagesList]

\* lines 457-459: the backend name has changed
UpdateSwap(q) ==
    LET swap == loadActiveBackend(config, activeBackendModule, ollamaConfig)
    IN IF swap.threw
       THEN UpdateFailed(q, LoadError(config), swap.module, swap.ollamaConfig)
       ELSE UpdateDone(q, swap.module, swap.ollamaConfig)

\* The same backend name, and the provider keeps its settings
UpdateKeepsSettings(q) == UpdateDone(q, activeBackendModule, ollamaConfig)

\* lines 460-463: the same backend name: the provider is initialized again, when it
\* has an initialize
UpdateReinit(q) ==
    LET init == OllamaInitialize(config)
    IN IF activeBackendModule # "ollama"
       THEN UpdateDone(q, activeBackendModule, ollamaConfig)
       ELSE IF init.threw
       THEN UpdateFailed(q, <<"TypeError">>, activeBackendModule, init.ollamaConfig)
       ELSE UpdateDone(q, activeBackendModule, init.ollamaConfig)

\* lines 456-482: handleConfigUpdate after the await, given whether the write succeeded;
\* the request and the provider, provider settings and catalog it leaves
handleConfigUpdateResume(q, stored) ==
    IF ~stored
    THEN UpdateFailed(q, <<"storage error">>, activeBackendModule, ollamaConfig)
    ELSE IF config = NullConfig
    THEN UpdateFailed(q, <<"TypeError">>, activeBackendModule, ollamaConfig)
    ELSE IF q.oldBackend # config.activeBackend
    THEN UpdateSwap(q)
    ELSE UpdateReinit(q)

\* lines 505-517: handleBackendSwitch up to its await of chrome.storage.local.set
handleBackendSwitch(q) ==
    IF q.payload.backend \notin backendModules
    THEN [q |-> Fail(q, <<"Backend \"", q.payload.backend, "\" not found">>),
          config |-> config]
    ELSE IF config = NullConfig
    THEN [q |-> Fail(q, <<"TypeError">>), config |-> config]
    ELSE LET switched == [config EXCEPT !.activeBackend = q.payload.backend]
         IN [q |-> [q EXCEPT !.pc = "awaitStore", !.toStore = switched],
             config |-> switched]

\* lines 519-532: handleBackendSwitch after the await
handleBackendSwitchResume(q, stored) ==
    LET swap == loadActiveBackend(config, activeBackendModule, ollamaConfig)
    IN IF ~stored
       THEN [q |-> Fail(q, <<"storage error">>), module |-> activeBackendModule,
             ollamaConfig |-> ollamaConfig, catalog |-> supportedLanguagesList]
       ELSE [q |-> IF swap.threw THEN Fail(q, LoadError(config))
                   ELSE Respond(q, [success |-> TRUE,
                                    message |-> <<"Switched to ", q.payload.backend,
                                                  " backend successfully">>]),
             module |-> swap.module, ollamaConfig |-> swap.ollamaConfig,
             catalog |-> supportedLanguagesList]

\* lines 486-502: handleConfigReset after its await of the fetch in
\* loadAndProcessConfig; before it, it has changed nothing
handleConfigReset(q) ==
    LET loaded == loadAndProcessConfig(configFile)
        swap == loadActiveBackend(loaded.config, activeBackendModule, ollamaConfig)
    IN IF loaded.threw
       THEN [q |-> Fail(q, <<"Failed to fetch config.json">>), config |-> loaded.config,
             catalog |-> loaded.catalog, module |-> activeBackendModule,
             ollamaConfig |-> ollamaConfig]
       ELSE [q |-> IF swap.threw THEN Fail(q, LoadError(loaded.config))
                   ELSE Respond(q, [success |-> TRUE]),
             config |-> loaded.config, catalog |-> loaded.catalog,
             module |-> swap.module, ollamaConfig |-> swap.ollamaConfig]

\* lines 317-359: a message arrives; the handler runs up to its first await. The
\* requests are numbered in the order of their arrival
onMessageReceived(i, request) ==
    /\ listening
    /\ req[i].pc = "idle"
    /\ \A j \in 1..(i - 1) : req[j].pc # "idle"
    /\ LET q == [IdleRequest EXCEPT
                    !.via = "message",
                    !.action = request.action,
                    !.payload = request.payload,
                    !.moduleBefore = activeBackendModule,
                    !.backendBefore = IF config = NullConfig THEN Undefined
                                      ELSE config.activeBackend,
                    !.alone = \A j \in 1..(i - 1) : req[j].pc = "done"]
           a == request.action
           sync == IF a = "translate" THEN handleTranslateRequest(q)
                   ELSE IF a = "checkStatus" THEN handleStatusCheck(q)
                   ELSE IF a = "getConfig" THEN handleGetConfig(q)
                   ELSE IF a = "resetConfig" THEN [q EXCEPT !.pc = "awaitConfig"]
                   ELSE IF a = "checkModelStatus" THEN handleModelStatusCheck(q)
                   ELSE UnknownAction(q)
       IN IF a = "updateConfig"
          THEN /\ req' = [req EXCEPT ![i] = handleConfigUpdate(q).q]
               /\ config' = handleConfigUpdate(q).config
          ELSE IF a = "switchBackend"
          THEN /\ req' = [req EXCEPT ![i] = handleBackendSwitch(q).q]
               /\ config' = handleBackendSwitch(q).config
          ELSE /\ req' = [req EXCEPT ![i] = sync]
               /\ UNCHANGED config
    /\ fresh' = FALSE
    /\ UNCHANGED <<activeBackendModule, listening, initDone, ollamaConfig, chromeApiConfig,
                   call, supportedLanguagesList, storage, configFile>>

\* chrome.storage.local.set has ended, with success or not: the handler that awaited
\* it goes on to its end
StoreReply(i, stored) ==
    /\ req[i].pc = "awaitStore"
    /\ LET after == IF req[i].action = "updateConfig"
                    THEN handleConfigUpdateResume(req[i], stored)
                    ELSE handleBackendSwitchResume(req[i], stored)
       IN /\ req' = [req EXCEPT ![i] = after.q]
          /\ activeBackendModule' = after.module
          /\ ollamaConfig' = after.ollamaConfig
          /\ supportedLanguagesList' = after.catalog
          /\ storage' = IF stored /\ req[i].toStore # NullConfig THEN req[i].toStore
                        ELSE storage
    /\ UNCHANGED <<config, listening, initDone, configFile, fresh, chromeApiConfig, call>>

\* The fetch of config.json by a resetConfig has ended
ConfigReply(i) ==
    /\ req[i].pc = "awaitConfig"
    /\ LET after == handleConfigReset(req[i])
       IN /\ req' = [req EXCEPT ![i] = after.q]
          /\ config' = after.config
          /\ supportedLanguagesList' = after.catalog
          /\ activeBackendModule' = after.module
          /\ ollamaConfig' = after.ollamaConfig
    /\ UNCHANGED <<listening, initDone, storage, configFile, fresh, chromeApiConfig, call>>

-----------------------------------------------------------------------------
(* The extension: the Coordinator starts, then answers messages *)

Init ==
    /\ config = NullConfig
    /\ activeBackendModule = NoModule
    /\ listening = FALSE
    /\ initDone = FALSE
    /\ ollamaConfig = EmptyOllamaConfig
    /\ req = [i \in Requests |-> IdleRequest]
    /\ supportedLanguagesList = <<>>
    /\ storage = NullConfig
    /\ configFile \in ConfigFetches
    /\ fresh = TRUE
    /\ chromeApiConfig = EmptyChromeApiConfig
    /\ call = NoCall

\* The outcomes of a provider's network call that the Coordinator can tell apart: a
\* failure of the network, of the status, an empty response, a translation
CoordinatorOutcomes ==
    {o \in NetOutcomes : o.kind # "ok" \/ o.response \in {<<>>, <<"a">>}}

Next ==
    \/ initialize
    \/ Restart
    \/ \E i \in Requests, request \in MessagesIn : onMessageReceived(i, request)
    \/ \E i \in Requests, o \in CoordinatorOutcomes : PreferredReply(i, o)
    \/ \E i \in Requests, o \in CoordinatorOutcomes : FallbackReply(i, o)
    \/ \E i \in Requests, o \in CoordinatorOutcomes : StatusReply(i, o)
    \/ \E i \in Requests, o \in CoordinatorOutcomes : ModelStatusReply(i, o)
    \/ \E i \in Requests, d \in Detections : DetectReply(i, d)
    \/ \E i \in Requests, stored \in BOOLEAN : StoreReply(i, stored)
    \/ \E i \in Requests : ConfigReply(i)

Spec == Init /\ [][Next]_vars

-----------------------------------------------------------------------------
(* Properties of the local-model provider (checked under SpecProvider) *)

\* translate has resolved its models and issued its first call
Selected(q) == q.provider = "ollama" /\ q.fetches # <<>>

KnownSource(q) == q.sourceLangCode # "auto" /\ q.sourceLangCode # Undefined

PairMatches(p, q) == p.source = q.sourceLangCode /\ p.target = q.targetLangCode

Configured(id) == \E m \in 1..Len(ollamaConfig.models) : ollamaConfig.models[m].id = id

C2_FallbackSuccess ==
    \A i \in Requests :
        LET q == req[i]
        IN (Selected(q) /\ q.fetches[1].state = "threw"
                /\ getFallbackModel.id # q.fetches[1].model)
            => /\ Len(q.fetches) = 2
               /\ q.fetches[2].model = getFallbackModel.id
               /\ q.fetches[2].state = "returned"
                    => /\ q.pc = "done"
                       /\ q.result.success = TRUE
                       /\ q.result.usedFallback = TRUE
                       /\ q.result.modelUsed = getFallbackModel.id

C2_Witness ==
    \E i \in Requests :
        LET q == req[i]
        IN /\ Selected(q)
           /\ Len(q.fetches) = 2
           /\ q.fetches[1].state = "threw"
           /\ q.fetches[2].state = "returned"
           /\ q.fetches[2].model # q.fetches[1].model
           /\ q.pc = "done"

\* C3: when the preferred model's call succeeds translate returns success = true,
\* usedFallback = false and modelUsed = the preferred model's id, and no fallback call is
\* made; in every success result modelUsed is the model of the call that returned.
C3_PreferredSuccess ==
    \A i \in Requests :
        LET q == req[i]
            last == q.fetches[Len(q.fetches)]
        IN /\ (Selected(q) /\ q.fetches[1].state = "returned")
               => /\ q.pc = "done"
                  /\ Len(q.fetches) = 1
                  /\ q.result.success = TRUE
                  /\ q.result.usedFallback = FALSE
                  /\ q.result.modelUsed = q.fetches[1].model
                  /\ q.result.modelUsed
                         = getPreferredModel(q.sourceLangCode, q.targetLangCode).id
           /\ (q.provider = "ollama" /\ q.pc = "done" /\ q.result.success = TRUE)
               => /\ q.fetches # <<>>
                  /\ last.state = "returned"
                  /\ q.result.modelUsed = last.model
                  /\ \A k \in 1..(Len(q.fetches) - 1) : q.fetches[k].state = "threw"

C3_Witness ==
    \E i \in Requests :
        LET q == req[i]
        IN /\ Selected(q)
           /\ q.fetches[1].state = "returned"
           /\ q.pc = "done"
           /\ q.result.modelUsed # getFallbackModel.id

\* C4: when the preferred model's call and the call to a distinct fallback model have
\* both failed, translate returns one result with success = false whose error text
\* contains the id of the preferred model and the id of the fallback model.
C4_BothFail ==
    \A i \in Requests :
        LET q == req[i]
        IN (Selected(q) /\ Len(q.fetches) = 2
                /\ q.fetches[1].state = "threw" /\ q.fetches[2].state = "threw")
            => /\ q.pc = "done"
               /\ q.result.success = FALSE
               /\ Mentions(q.result.error, q.preferredModel.id)
               /\ Mentions(q.result.error, q.fallbackModel.id)
               /\ q.fetches[1].model = q.preferredModel.id
               /\ q.fetches[2].model = q.fallbackModel.id

C4_Witness ==
    \E i \in Requests :
        LET q == req[i]
        IN /\ Selected(q)
           /\ Len(q.fetches) = 2
           /\ q.fetches[2].state = "threw"
           /\ q.fetches[1].model # q.fetches[2].model
           /\ q.pc = "done"

\* C5: when the preferred and the fallback model resolve to the same id and the preferred
\* model's call has failed, that call is the only one made and the request has ended
\* with one failure result.
C5_SameModelNoRetry ==
    \A i \in Requests :
        LET q == req[i]
        IN (Selected(q) /\ q.fetches[1].state = "threw"
                /\ getFallbackModel.id
                       = getPreferredModel(q.sourceLangCode, q.targetLangCode).id)
            => /\ Len(q.fetches) = 1
               /\ q.pc = "done"
               /\ q.result.success = FALSE

C5_Witness ==
    \E i \in Requests :
        LET q == req[i]
        IN /\ Selected(q)
           /\ q.fetches[1].state = "threw"
           /\ q.fallbackModel.id = q.preferredModel.id
           /\ q.pc = "done"
           /\ Len(ollamaConfig.models) > 1

-----------------------------------------------------------------------------
(* Properties of the Coordinator (checked under Spec) *)

\* The scenario of C9: a translate message for en -> ja as content.js sends it, while
\* the local-model provider is active with a preference of ModelX for en -> ja; the
\* provider's first call has returned a translation
HelloScenario(q) ==
    /\ q.via = "message"
    /\ q.action = "translate"
    /\ q.payload.sourceLangCode = "en"
    /\ q.payload.targetLangCode = "ja"
    /\ q.provider = "ollama"
    /\ FindPair("en", "ja") # 0
    /\ ollamaConfig.languagePairs[FindPair("en", "ja")].preferredModel = "ModelX"
    /\ Configured("ModelX")
    /\ q.pc = "done"
    /\ q.fetches # <<>>
    /\ q.fetches[1].state = "returned"

\* C9: a translate message carrying sourceLangCode and targetLangCode is dispatched to
\* the active provider's translate with those codes; so a message for en -> ja, with a
\* preference of ModelX for en -> ja and ModelX answering, ends with success = true,
\* usedFallback = false and modelUsed = ModelX.
C9_TranslateDispatch ==
    \A i \in Requests :
        LET q == req[i]
        IN HelloScenario(q) =>
            /\ q.sourceLangCode = q.payload.sourceLangCode
            /\ q.targetLangCode = q.payload.targetLangCode
            /\ q.result.success = TRUE
            /\ q.result.usedFallback = FALSE
            /\ q.result.modelUsed = "ModelX"
            /\ q.responses = <<q.result>>

\* C10: a checkBackendStatus message is answered with the provider's status: a response
\* with status "running" or "error", not the answer to an unknown action.
C10_BackendStatusAnswered ==
    \A i \in Requests :
        LET q == req[i]
        IN (q.via = "message" /\ q.action = "checkBackendStatus" /\ q.pc = "done")
            => /\ Len(q.responses) = 1
               /\ "status" \in DOMAIN q.responses[1]
               /\ q.responses[1].status \in {"running", "error"}
               /\ "error" \notin DOMAIN q.responses[1]

\* The states a request waits in: for a provider's network call or language
\* detection, for chrome.storage.local.set, for the fetch of config.json
AwaitStates ==
    {"awaitPreferred", "awaitFallback", "awaitDetect", "awaitStatus",
     "awaitModelStatus", "awaitStore", "awaitConfig"}

\* A response is a structured value: it says success or it carries a status
Structured(r) == "success" \in DOMAIN r \/ "status" \in DOMAIN r

IsFailure(r) ==
    \/ "success" \in DOMAIN r /\ r.success = FALSE
    \/ "status" \in DOMAIN r /\ r.status = "error"

\* Request i has been answered, was handled with no other request in flight, and no
\* message has arrived and no restart has happened since it arrived
HandledLast(i) ==
    /\ initDone /\ ~fresh
    /\ req[i].pc = "done"
    /\ req[i].alone
    /\ \A j \in Requests : j > i => req[j].pc = "idle"

\* C11: every message handed to onMessageReceived gets exactly one response: none while
\* its handler waits, one structured value once the handler has ended, a failure
\* included; and once a message has arrived the listener stays registered, whatever the
\* answers were, as long as the service worker runs.
C11_ExactlyOneResponse ==
    /\ (initDone /\ ~fresh) => listening
    /\ \A i \in Requests :
           LET q == req[i]
           IN q.via = "message" =>
               /\ q.pc \in AwaitStates \cup {"done"}
               /\ q.pc \in AwaitStates => q.responses = <<>>
               /\ q.pc = "done" => Len(q.responses) = 1 /\ Structured(q.responses[1])

\* A request answered with a failure, and a request that arrived after that answer and
\* has been answered too
C11_Witness ==
    \E i, j \in Requests :
        /\ i < j
        /\ listening
        /\ req[i].pc = "done" /\ req[j].pc = "done"
        /\ req[j].alone
        /\ req[i].action \in {"translate", "updateConfig", "switchBackend", "resetConfig"}
        /\ IsFailure(req[i].responses[1])
        /\ Len(req[j].responses) = 1

\* initialize() has ended and no message has arrived since
JustStarted == initDone /\ fresh

\* C12: when at start-up neither the configured backend nor the retry brings up a
\* provider, the Coordinator still accepts messages (its listener is registered), to
\* answer them with failures.
C12_StartupFailureStillAnswers ==
    (JustStarted /\ activeBackendModule = NoModule) => listening

\* C13: when config.json names a backend that is not registered, start-up ends with
\* a registered backend in config.activeBackend and with that provider active.
C13_UnregisteredFallsBackToDefault ==
    ( /\ JustStarted
      /\ configFile.ok
      /\ configFile.config.activeBackend \notin backendModules \cup {Undefined} )
        => /\ config.activeBackend \in backendModules
           /\ activeBackendModule = config.activeBackend

\* C14: when config.json cannot be fetched or parsed, start-up ends with the default
\* configuration, the default languages as catalog, the default backend active and
\* initialized with the default settings, and the listener registered; a translate
\* message arriving first is dispatched to that backend.
C14_LoadFailureUsesDefaults ==
    /\ (JustStarted /\ ~configFile.ok) =>
           /\ config = defaultConfig
           /\ supportedLanguagesList = defaultConfig.supportedLanguages
           /\ activeBackendModule = defaultConfig.activeBackend
           /\ ollamaConfig = defaultConfig.ollama
           /\ listening
    /\ (~configFile.ok /\ req[1].via = "message" /\ req[1].action = "translate") =>
           /\ req[1].provider = defaultConfig.activeBackend
           /\ req[1].pc = "done" => Len(req[1].responses) = 1

\* config.json could not be read, and the first translate message has been answered
\* with a translation by the default model
C14_Witness ==
    /\ ~configFile.ok
    /\ initDone
    /\ req[1].action = "translate"
    /\ req[1].pc = "done"
    /\ req[1].responses[1].success = TRUE
    /\ req[1].responses[1].modelUsed = defaultConfig.ollama.models[1].id

\* The settings the local-model provider holds once initialized with configuration c
SettingsOf(c) == OllamaInitialize(c).ollamaConfig

\* C15: an updateConfig handled on its own leaves the supplied configuration as the
\* configuration; when it is answered with success, then, if the backend name changed,
\* the provider registered under the new name is active and (the local-model provider)
\* holds the new configuration's settings; if the name did not change, the provider
\* that was active still is and holds the new settings; the catalog is the one of the
\* new configuration. A translate request that arrives afterwards selects its model
\* from the settings the provider then holds.
C15_UpdateConfigReplaces ==
    /\ \A i \in Requests :
           LET q == req[i]
               c == q.payload.config
           IN ( /\ HandledLast(i)
                /\ q.action = "updateConfig"
                /\ q.backendBefore # Undefined )
               => /\ config = c
                  /\ q.responses[1].success =>
                        /\ supportedLanguagesList = BuildCatalog(c)
                        /\ c.activeBackend # q.backendBefore
                              => activeBackendModule = c.activeBackend
                        /\ c.activeBackend = q.backendBefore
                              => activeBackendModule = q.moduleBefore
                        /\ activeBackendModule = "ollama" => ollamaConfig = SettingsOf(c)
    /\ \A j \in Requests :
           LET t == req[j]
           IN ( /\ t.action = "translate" /\ t.alone /\ t.pc = "awaitPreferred"
                /\ initDone /\ \A k \in Requests : k > j => req[k].pc = "idle" )
               => t.fetches[1].model
                      = getPreferredModel(t.sourceLangCode, t.targetLangCode).id

\* An updateConfig that changed the backend name to the local-model provider's, with
\* ModelX as its only model, was answered with success, and the translate request after
\* it was answered by ModelX
C15_Witness ==
    /\ MaxReqs >= 2
    /\ req[1].action = "updateConfig" /\ req[1].pc = "done"
    /\ req[1].responses[1].success
    /\ req[1].backendBefore = "chromeApi"
    /\ req[1].payload.config # NullConfig
    /\ req[1].payload.config.activeBackend = "ollama"
    /\ req[2].action = "translate" /\ req[2].alone /\ req[2].pc = "done"
    /\ req[2].responses[1].success
    /\ req[2].responses[1].modelUsed = "ModelX"
    /\ config = req[1].payload.config

\* C16: a configuration accepted by updateConfig is kept in the storage, and after a
\* restart of the service worker the configuration is that stored configuration merged
\* over the one loaded from config.json.
C16_UpdateSurvivesRestart ==
    \A i \in Requests :
        LET q == req[i]
        IN ( /\ q.action = "updateConfig" /\ q.pc = "done" /\ q.alone
             /\ q.responses[1].success
             /\ storage = q.payload.config
             /\ JustStarted
             /\ configFile.ok )
            => config = MergeConfig(loadAndProcessConfig(configFile).config, storage)

\* What a successful resetConfig leaves, handled on its own: the configuration and
\* the catalog of loadAndProcessConfig, and the provider config.json names, with the
\* settings config.json gives it
ResetLoadsBundled(i) ==
    LET loaded == loadAndProcessConfig(configFile)
    IN /\ config = loaded.config
       /\ supportedLanguagesList = loaded.catalog
       /\ activeBackendModule = loaded.config.activeBackend
       /\ activeBackendModule = "ollama" => ollamaConfig = SettingsOf(loaded.config)

\* C17: after a resetConfig answered with success, whatever came before, the
\* configuration, the catalog and the active provider are those of loading config.json,
\* and the storage holds no configuration any more.
C17_ResetDiscardsOverride ==
    \A i \in Requests :
        ( /\ HandledLast(i)
          /\ req[i].action = "resetConfig"
          /\ req[i].responses[1].success )
            => /\ ResetLoadsBundled(i)
               /\ storage = NullConfig


\* A request handled on its own, after switchBackend("chromeApi") was answered with
\* success and with the chromeApi provider active when it arrives
AfterSwitchToChromeApi(i) ==
    /\ i > 1
    /\ req[1].action = "switchBackend"
    /\ req[1].payload.backend = "chromeApi"
    /\ req[1].pc = "done"
    /\ req[1].responses[1].success
    /\ HandledLast(i)
    /\ req[i].moduleBefore = "chromeApi"

\* C18: once switchBackend("chromeApi") has succeeded, a translate request goes to the
\* chromeApi provider's translate and a checkModelStatus request is answered with
\* status "running".
C18_ChromeApiAfterSwitch ==
    \A i \in Requests :
        AfterSwitchToChromeApi(i)
            => /\ req[i].action = "translate" => req[i].provider = "chromeApi"
               /\ req[i].action = "checkModelStatus"
                    => req[i].responses[1].status = "running"


\* The backend name a request asks to make active, Undefined when it asks for none
RequestedBackend(q) ==
    IF q.action = "switchBackend" THEN q.payload.backend
    ELSE IF q.action = "updateConfig" /\ q.payload.config # NullConfig
    THEN q.payload.config.activeBackend
    ELSE Undefined

\* config.activeBackend, Undefined when there is no configuration
ActiveBackendName == IF config = NullConfig THEN Undefined ELSE config.activeBackend

\* C19: a switchBackend or updateConfig request naming an unregistered backend, arriving
\* while a registered provider is active, is answered with a structured failure, and
\* after it the active provider and config.activeBackend are what they were before it.
C19_UnregisteredLeavesProvider ==
    \A i \in Requests :
        ( /\ HandledLast(i)
          /\ req[i].action \in {"switchBackend", "updateConfig"}
          /\ RequestedBackend(req[i]) \notin backendModules \cup {Undefined}
          /\ req[i].moduleBefore \in backendModules
          /\ req[i].backendBefore = req[i].moduleBefore )
            => /\ IsFailure(req[i].responses[1])
               /\ activeBackendModule = req[i].moduleBefore
               /\ ActiveBackendName = req[i].backendBefore


\* Request i is a message whose action is none of the cases of onMessageReceived
UnknownRequest(i) ==
    /\ req[i].via = "message"
    /\ req[i].pc # "idle"
    /\ req[i].action \notin KnownActions

\* C20: a message with an unknown action is answered, at once and exactly once, with
\* success = false and the error "Unknown action"; the listener stays registered and
\* every later message that has been handled has its one structured answer.
C20_UnknownActionAnswered ==
    \A i \in Requests :
        UnknownRequest(i)
            => /\ req[i].pc = "done"
               /\ req[i].responses = <<[success |-> FALSE, error |-> <<"Unknown action">>]>>
               /\ initDone => listening
               /\ \A j \in Requests :
                    (j > i /\ req[j].pc = "done")
                        => /\ Len(req[j].responses) = 1
                           /\ Structured(req[j].responses[1])

\* An unknown action was answered and a known request sent after it has its answer
C20_Witness ==
    /\ UnknownRequest(1)
    /\ req[1].responses[1].success = FALSE
    /\ req[2].action \in KnownActions
    /\ req[2].pc = "done"
    /\ req[2].alone
    /\ Len(req[2].responses) = 1


\* C21: no getConfig request is answered with an undefined configuration or with one
\* that lacks fields: the answer carries a configuration with every key defined.
C21_GetConfigNeverEmpty ==
    \A i \in Requests :
        (req[i].action = "getConfig" /\ req[i].pc = "done")
            => /\ req[i].responses[1].config # NullConfig
               /\ req[i].responses[1].config.missing = {}


\* C22: the local-model provider's initialize does not throw on the configuration the
\* Coordinator hands it at start-up, and leaves settings that have a models list: the
\* minimal default when the configuration has no settings for the provider.
C22_InitializeNeverThrows ==
    (JustStarted /\ activeBackendModule = "ollama")
        => /\ ~OllamaInitialize(config).threw
           /\ ollamaConfig.hasModels
           /\ ~config.ollama.present => ollamaConfig = MinimalOllamaConfig


\* A step of a checkStatus request: its arrival or the end of its network attempt
StatusCheckStep(i) == req'[i] # req[i] /\ req'[i].action = "checkStatus"

\* No model to check: no provider with models is active
NoModelConfigured ==
    \/ activeBackendModule # "ollama"
    \/ ~ollamaConfig.hasModels
    \/ Len(ollamaConfig.models) = 0

\* C23: every step of a checkStatus request leaves the configuration, the provider's
\* settings, the active provider, the catalog and the storage unchanged; the request
\* makes at most one network attempt, none when no model is configured, and is
\* answered when that attempt ends, whether it succeeded or failed.
C23_StatusCheckFrame ==
    [][\A i \in Requests :
        StatusCheckStep(i)
            => /\ UNCHANGED <<config, ollamaConfig, activeBackendModule,
                              supportedLanguagesList, storage>>
               /\ Len(req'[i].fetches) <= 1
               /\ (req[i].pc = "idle" /\ NoModelConfigured) => req'[i].fetches = <<>>
               /\ req[i].pc = "awaitStatus" => req'[i].pc = "done"]_vars

\* A checkStatus request has been answered after its one network attempt failed
C23_Witness ==
    \E i \in Requests :
        /\ req[i].action = "checkStatus"
        /\ req[i].pc = "done"
        /\ Len(req[i].fetches) = 1
        /\ req[i].fetches[1].state = "threw"
        /\ req[i].responses[1].status = "error"


\* translate has been called for request q with a known source, and the preference
\* entry found for its pair names a model that is not in the model list
DanglingPreference(q) ==
    LET pair == FindPair(q.sourceLangCode, q.targetLangCode)
    IN /\ q.provider = "ollama"
       /\ KnownSource(q)
       /\ pair # 0
       /\ ~Configured(ollamaConfig.languagePairs[pair].preferredModel)

\* C24: when the preference entry for the request's pair names a model that is not in
\* the model list, translate raises no error over it: with a non-empty model list it
\* goes on to its first call, and the model it has selected and calls is the default
\* model.
C24_DanglingPreferenceUsesDefault ==
    \A i \in Requests :
        LET q == req[i]
        IN (DanglingPreference(q) /\ Len(ollamaConfig.models) > 0)
            => /\ Selected(q)
               /\ q.preferredModel = getDefaultModel
               /\ q.preferredModel # NoModel
               /\ q.fetches[1].model = getDefaultModel.id

\* A request whose preference entry is dangling has called the default model
C24_Witness ==
    \E i \in Requests :
        /\ DanglingPreference(req[i])
        /\ Selected(req[i])
        /\ req[i].fetches[1].model = getDefaultModel.id


\* Model k of the list is flagged as default and no model before it is
FirstFlagged(k) ==
    /\ ollamaConfig.models[k].default = TRUE
    /\ \A j \in 1..(k - 1) : ollamaConfig.models[j].default # TRUE

\* C25: the default model is the first model of the list flagged as default, the first
\* model when none is flagged, and none when the list is empty; a translate call with no
\* known source calls that model, and with an empty list it is answered with a failure
\* and no call to the network.
C25_DefaultModel ==
    LET ms == ollamaConfig.models
    IN /\ \A k \in 1..Len(ms) : FirstFlagged(k) => getDefaultModel = ms[k]
       /\ (Len(ms) > 0 /\ \A k \in 1..Len(ms) : ms[k].default # TRUE)
            => getDefaultModel = ms[1]
       /\ Len(ms) = 0 => getDefaultModel = NoModel
       /\ \A i \in Requests :
            LET q == req[i]
            IN q.provider = "ollama"
                => /\ (Len(ms) > 0 /\ ~KnownSource(q))
                        => /\ Selected(q)
                           /\ \A k \in 1..Len(ms) :
                                FirstFlagged(k) => q.fetches[1].model = ms[k].id
                   /\ Len(ms) = 0
                        => /\ q.pc = "done"
                           /\ q.fetches = <<>>
                           /\ q.result.success = FALSE

\* With a model list whose second model is the first one flagged, a translate call
\* with no known source has called that second model
C25_Witness ==
    \E i \in Requests :
        /\ req[i].provider = "ollama"
        /\ ~KnownSource(req[i])
        /\ Len(ollamaConfig.models) = 2
        /\ FirstFlagged(2)
        /\ ollamaConfig.models[1].id # ollamaConfig.models[2].id
        /\ Selected(req[i])
        /\ req[i].fetches[1].model = ollamaConfig.models[2].id


-----------------------------------------------------------------------------
(* backends/chromeApi.js with translation (unnamed/part_003, lines 347-552): the *)
(* provider on its own, initialized with any settings, then called by translate  *)

\* lines 362-378: initialize keeps the provider's slice of the configuration, or a
\* minimal default when there is none
ChromeApiInitialize(settings) ==
    IF settings.present THEN settings ELSE [present |-> TRUE, detectOnly |-> FALSE]

\* lines 447-473: what detectLanguage resolves with, for a report without error
detectLanguage(detection) ==
    IF detection.languages # <<>>
    THEN [detectedLanguage |-> TopLanguage(detection.languages).language,
          confidence |-> TopLanguage(detection.languages).percentage]
    ELSE [detectedLanguage |-> "en", confidence |-> 0]

\* Variant: the detect-only setting is not looked at
ChromeApiAlwaysTranslates(q) ==
    [q EXCEPT !.pc = "awaitTranslateText",
              !.fetches = Append(@, Fetch("chrome-translate"))]

\* lines 408-420: after the detection step; in detect-only mode translate returns the
\* text as it is, otherwise it calls translateText and awaits it
ChromeApiAfterDetection(q) ==
    IF chromeApiConfig.detectOnly
    THEN Return(q, [success |-> TRUE, translation |-> <<"text">>,
                    detectedSourceLang |-> q.detectedSourceLang,
                    message |-> <<"Chrome API in detect-only mode, no translation performed">>])
    ELSE [q EXCEPT !.pc = "awaitTranslateText",
                   !.fetches = Append(@, Fetch("chrome-translate"))]

\* lines 390-396: translate up to its first await
ChromeApiTranslateBegin(q, sourceLangCode, targetLangCode) ==
    LET q1 == [q EXCEPT !.provider = "chromeApi",
                        !.sourceLangCode = sourceLangCode,
                        !.targetLangCode = targetLangCode,
                        !.detectedSourceLang = sourceLangCode]
    IN IF sourceLangCode = "auto"
       THEN [q1 EXCEPT !.pc = "awaitDetect"]
       ELSE ChromeApiAfterDetection(q1)

\* Variant: a failed detection is passed over and the source stays "auto"
ChromeApiAfterDetectGoesOn(q0, detection) ==
    LET q == [q0 EXCEPT !.detection = detection]
    IN IF detection.error
       THEN ChromeApiAfterDetection(q)
       ELSE ChromeApiAfterDetection(
                [q EXCEPT !.detectionResult = detectLanguage(detection),
                          !.detectedSourceLang = detectLanguage(detection).detectedLanguage])

\* lines 396-406: the detection has ended
ChromeApiAfterDetect(q0, detection) ==
    LET q == [q0 EXCEPT !.detection = detection]
    IN IF detection.error
       THEN Return(q, [success |-> FALSE,
                       error |-> <<"Language detection failed: ", "lastError.message">>])
       ELSE ChromeApiAfterDetection(
                [q EXCEPT !.detectionResult = detectLanguage(detection),
                          !.detectedSourceLang = detectLanguage(detection).detectedLanguage])

\* lines 422-431 and 483-509: translateText resolves after its timer, always
ChromeApiAfterTranslateText(q0) ==
    LET translation == <<"[Chrome API] ", "text">>
        q == EndFetch(q0, [threw |-> FALSE, response |-> "ok", raw |-> translation,
                           translation |-> translation, message |-> <<>>])
    IN Return(q, [success |-> TRUE, translation |-> translation,
                  detectedSourceLang |->
                      IF q.detectedSourceLang # "auto" THEN q.detectedSourceLang
                      ELSE Undefined,
                  modelUsed |-> "chrome-translate"])

\* A caller invokes the provider's translate(text, sourceLangCode, targetLangCode, style)
chromeApiTranslate(i, sourceLangCode, targetLangCode) ==
    /\ req[i].pc = "idle"
    /\ req' = [req EXCEPT ![i] =
                 ChromeApiTranslateBegin([@ EXCEPT !.via = "direct"],
                                         sourceLangCode, targetLangCode)]
    /\ UNCHANGED coordinator

ChromeApiDetectReply(i, detection) ==
    /\ req[i].pc = "awaitDetect"
    /\ req' = [req EXCEPT ![i] = ChromeApiAfterDetect(@, detection)]
    /\ UNCHANGED coordinator

TranslateTextReply(i) ==
    /\ req[i].pc = "awaitTranslateText"
    /\ req' = [req EXCEPT ![i] = ChromeApiAfterTranslateText(@)]
    /\ UNCHANGED coordinator

ChromeApiInit ==
    /\ \E s \in ChromeApiConfigs : chromeApiConfig = ChromeApiInitialize(s)
    /\ call = NoCall
    /\ config = defaultConfig
    /\ activeBackendModule = "chromeApi"
    /\ listening = TRUE
    /\ initDone = TRUE
    /\ ollamaConfig = EmptyOllamaConfig
    /\ req = [i \in Requests |-> IdleRequest]
    /\ supportedLanguagesList = <<>>
    /\ storage = NullConfig
    /\ configFile = [ok |-> FALSE, config |-> NullConfig]
    /\ fresh = TRUE

ChromeApiNext ==
    \/ \E s \in SourceArgs, t \in TargetLangs : chromeApiTranslate(1, s, t)
    \/ \E d \in Detections : ChromeApiDetectReply(1, d)
    \/ TranslateTextReply(1)

SpecChromeApi == ChromeApiInit /\ [][ChromeApiNext]_vars

-----------------------------------------------------------------------------
(* ollama.js: formatPrompt, called on its own with any template and values *)

\* Texts are sequences of tokens: the three placeholders, "$&" (the replacement pattern
\* of String.prototype.replace that stands for the matched text), and other text
Placeholders == {"{sourceLanguage}", "{targetLanguage}", "{text}"}

\* A template: no template (undefined or ""), a text, or, for a style that is the name
\* of a property every object inherits (constructor, toString, ...), that property
NoTemplate == <<"no template">>
InheritedProperty == <<"Object.prototype property">>

\* The built-in template of line 134
BasicTemplate ==
    <<"Translate from ", "{sourceLanguage}", " to ", "{targetLanguage}", ": \"",
      "{text}", "\"">>

\* model.promptTemplates[style]: the object's own template for natural and literal,
\* an inherited property for constructor, undefined for any other style
TemplateOf(promptTemplates, style) ==
    IF style = "natural" THEN promptTemplates.natural
    ELSE IF style = "literal" THEN promptTemplates.literal
    ELSE IF style = "constructor" THEN InheritedProperty
    ELSE NoTemplate

\* str.replace(placeholder, value) with a string pattern: the first occurrence of the
\* placeholder is replaced, and "$&" in the value stands for the placeholder matched
ReplaceFirst(str, placeholder, value) ==
    LET hits == {k \in 1..Len(str) : str[k] = placeholder}
        inserted == [k \in 1..Len(value) |->
                        IF value[k] = "$&" THEN placeholder ELSE value[k]]
    IN IF hits = {} THEN str
       ELSE SubSeq(str, 1, SetMin(hits) - 1) \o inserted
                \o SubSeq(str, SetMin(hits) + 1, Len(str))

\* lines 125-145: the template chosen and the prompt returned; it throws when the
\* template is not a string (template.replace is not a function)
formatPrompt(model, sourceLanguage, targetLanguage, text, style) ==
    LET actualStyle == IF style = Undefined THEN "natural" ELSE style
        first == IF model.hasTemplates THEN TemplateOf(model.promptTemplates, actualStyle)
                 ELSE NoTemplate
        second == IF first # NoTemplate THEN first
                  ELSE IF model.hasTemplates THEN model.promptTemplates.natural
                  ELSE NoTemplate
        template == IF second # NoTemplate THEN second ELSE BasicTemplate
        displaySourceLang == IF sourceLanguage \in {<<"Auto-detect">>, <<"auto">>}
                             THEN <<"the source language">> ELSE sourceLanguage
    IN IF template = InheritedProperty
       THEN [threw |-> TRUE, template |-> template, prompt |-> <<>>]
       ELSE [threw |-> FALSE, template |-> template,
             prompt |-> ReplaceFirst(ReplaceFirst(ReplaceFirst(template,
                            "{sourceLanguage}", displaySourceLang),
                            "{targetLanguage}", targetLanguage),
                            "{text}", text)]

\* Templates in which each placeholder occurs once, with or without other text
OncePerPlaceholder ==
    {t \in SeqsUpTo(Placeholders \cup {"x"}, 4) :
        \A p \in Placeholders : Cardinality({k \in 1..Len(t) : t[k] = p}) = 1}

\* The values of the placeholders: text that may hold placeholder text and "$&"
PromptValues == SeqsUpTo(Placeholders \cup {"v", "$&"}, MaxValueLen)

\* The prompt templates of a model: the templates of a configuration, each present or not
NaturalTemplate == <<"natural: ", "{sourceLanguage}", "{targetLanguage}", "{text}">>
LiteralTemplate == <<"literal: ", "{sourceLanguage}", "{targetLanguage}", "{text}">>

PromptModels ==
    {[hasTemplates |-> FALSE,
      promptTemplates |-> [natural |-> NoTemplate, literal |-> NoTemplate]]}
    \cup {[hasTemplates |-> TRUE, promptTemplates |-> [natural |-> n, literal |-> l]] :
            n \in {NoTemplate, NaturalTemplate}, l \in {NoTemplate, LiteralTemplate}}

\* The styles a request may carry: none, the two styles, another word, and a word
\* that is the name of an inherited property
PromptStyles == {Undefined, "natural", "literal", "formal", "constructor"}

\* The calls of formatPrompt: any values in a template with each placeholder once; and
\* any model and style with plain values
PromptCalls ==
    {[fn |-> "formatPrompt", done |-> FALSE,
      model |-> [hasTemplates |-> TRUE,
                 promptTemplates |-> [natural |-> t, literal |-> NoTemplate]],
      sourceLanguage |-> s, targetLanguage |-> g, text |-> x, style |-> "natural",
      result |-> NoResult] :
        t \in OncePerPlaceholder, s \in PromptValues \cup {<<"auto">>},
        g \in PromptValues, x \in PromptValues}
    \cup {[fn |-> "formatPrompt", done |-> FALSE, model |-> m,
           sourceLanguage |-> <<"en">>, targetLanguage |-> <<"ja">>, text |-> <<"v">>,
           style |-> y, result |-> NoResult] :
             m \in PromptModels, y \in PromptStyles}

PromptInit ==
    /\ call \in PromptCalls
    /\ ollamaConfig = ScenarioOllamaSettings
    /\ config = [defaultConfig EXCEPT !.ollama = ollamaConfig]
    /\ activeBackendModule = "ollama"
    /\ listening = TRUE
    /\ initDone = TRUE
    /\ req = [i \in Requests |-> IdleRequest]
    /\ supportedLanguagesList = <<>>
    /\ storage = NullConfig
    /\ configFile = [ok |-> FALSE, config |-> NullConfig]
    /\ fresh = TRUE
    /\ chromeApiConfig = EmptyChromeApiConfig

\* formatPrompt(model, sourceLanguage, targetLanguage, text, style) runs
FormatPromptCall ==
    /\ call.fn = "formatPrompt"
    /\ ~call.done
    /\ call' = [call EXCEPT !.done = TRUE,
                            !.result = formatPrompt(call.model, call.sourceLanguage,
                                                    call.targetLanguage, call.text,
                                                    call.style)]
    /\ UNCHANGED <<config, activeBackendModule, listening, initDone, ollamaConfig,
                   chromeApiConfig, req, supportedLanguagesList, storage, configFile,
                   fresh>>

SpecPrompt == PromptInit /\ [][FormatPromptCall]_vars

-----------------------------------------------------------------------------
(* The language catalog on its own: built from any two language lists *)

\* Entries of supportedLanguages and disabledLanguages: { code, enabled }
CatalogLangs == {Lang(c, e) : c \in {"en", "ja", "fr"}, e \in BOOLEAN}

LanguageLists ==
    {[supportedLanguages |-> s, disabledLanguages |-> d, missing |-> {}] :
        s \in SeqsUpTo(CatalogLangs, MaxLangs), d \in SeqsUpTo(CatalogLangs, MaxLangs)}

\* The configuration has been merged and the catalog is still to be built
CatalogInit ==
    /\ \E l \in LanguageLists : config = ConfigFile("ollama", ScenarioOllamaSettings, l)
    /\ supportedLanguagesList = <<>>
    /\ initDone = FALSE
    /\ activeBackendModule = NoModule
    /\ listening = FALSE
    /\ ollamaConfig = EmptyOllamaConfig
    /\ req = [i \in Requests |-> IdleRequest]
    /\ storage = NullConfig
    /\ configFile = [ok |-> TRUE, config |-> config]
    /\ fresh = TRUE
    /\ chromeApiConfig = EmptyChromeApiConfig
    /\ call = NoCall

\* background.js lines 138-146 (and 141-148 of the catch, 465-473 of handleConfigUpdate)
BuildLanguageCatalog ==
    /\ ~initDone
    /\ supportedLanguagesList' = BuildCatalog(config)
    /\ initDone' = TRUE
    /\ UNCHANGED <<config, activeBackendModule, listening, ollamaConfig,
                   chromeApiConfig, call, req, storage, configFile, fresh>>

SpecCatalog == CatalogInit /\ [][BuildLanguageCatalog]_vars

\* The disabled entries that are pushed: those whose code is neither among the enabled
\* languages nor earlier in the disabled list
PushedDisabled(cfg) ==
    LET s == cfg.supportedLanguages
        d == cfg.disabledLanguages
    IN {k \in 1..Len(d) : /\ \A j \in 1..Len(s) : s[j].code # d[k].code
                          /\ \A j \in 1..(k - 1) : d[j].code # d[k].code}

\* The catalog starts with the enabled languages as they are, in their order, followed
\* by the pushed disabled entries in their order, with enabled = false
EnabledThenDisabled(cfg, list) ==
    LET s == cfg.supportedLanguages
        d == cfg.disabledLanguages
        kept == PushedDisabled(cfg)
    IN /\ Len(list) = Len(s) + Cardinality(kept)
       /\ \A k \in 1..Len(s) : list[k] = s[k]
       /\ \A k \in kept :
            list[Len(s) + Cardinality({j \in kept : j <= k})] = Lang(d[k].code, FALSE)

NoDuplicateCodes(list) ==
    \A j, k \in 1..Len(list) : list[j].code = list[k].code => j = k

\* C26: the catalog built from a configuration lists the enabled languages first, in
\* their order, then the disabled entries with enabled = false, and holds no two
\* entries with the same code, whatever the two lists.
C26_CatalogOrderNoDuplicates ==
    initDone => /\ EnabledThenDisabled(config, supportedLanguagesList)
                /\ NoDuplicateCodes(supportedLanguagesList)


\* C27: after a load that succeeded, the configuration is config.json merged over the
\* default configuration and has every required key: the language lists, activeBackend,
\* and the settings of the active backend.
C27_MergedConfigComplete ==
    (JustStarted /\ configFile.ok)
        => /\ config = MergeConfig(defaultConfig, configFile.config)
           /\ config.missing = {}
           /\ config.activeBackend # Undefined
           /\ config.activeBackend = "ollama" => config.ollama.present


\* A translate request that a provider is working on
InFlight(q) ==
    /\ q.action = "translate"
    /\ q.pc \in {"awaitPreferred", "awaitFallback", "awaitDetect"}

\* The ids of the models translate resolved before its first await
ResolvedIds(q) == {q.preferredModel.id, q.fallbackModel.id}

\* A translate message is handed to the provider that is active when it arrives
DispatchedToActive(q) ==
    ( /\ q.action = "translate"
      /\ q.pc # "idle"
      /\ q.moduleBefore \in backendModules
      /\ q.backendBefore # Undefined )
        => q.provider = q.moduleBefore

\* A step while request i is in flight: the request stays with its provider and with
\* the models it resolved; a call it makes goes to one of them; when it ends, the
\* provider's result is the one answer sent to its caller
RunsToCompletion(i) ==
    InFlight(req[i])
        => /\ req'[i].provider = req[i].provider
           /\ req'[i].preferredModel = req[i].preferredModel
           /\ req'[i].fallbackModel = req[i].fallbackModel
           /\ \A k \in 1..Len(req'[i].fetches) : req'[i].fetches[k].model \in ResolvedIds(req[i])
           /\ req'[i].pc = "done"
                => /\ req'[i].responses = <<req'[i].result>>
                   /\ req[i].provider = "ollama" /\ req'[i].result.success
                        => req'[i].result.modelUsed \in ResolvedIds(req[i])
                   /\ req[i].provider = "chromeApi" => ~req'[i].result.success

\* C28: a translate request is handed to the provider that is active when it arrives,
\* and from then on every step leaves it with that provider and the models resolved at
\* dispatch, whatever switchBackend or updateConfig does to the active provider and
\* its settings meanwhile; its result is the one answer to its caller.
C28_InFlightKeepsProvider ==
    /\ [](\A i \in Requests : DispatchedToActive(req[i]))
    /\ [][\A i \in Requests : RunsToCompletion(i)]_vars

\* A translate request is in flight with the local-model provider, on its second call,
\* while a switchBackend that arrived after it has made chromeApi the active provider
C28_Witness ==
    /\ InFlight(req[1])
    /\ req[1].provider = "ollama"
    /\ req[1].pc = "awaitFallback"
    /\ req[2].action = "switchBackend"
    /\ req[2].pc = "done"
    /\ req[2].responses[1].success
    /\ activeBackendModule = "chromeApi"


\* A translate call of the Chrome API provider with source "auto" has gone through a
\* language detection that reported no error
Detected(q) ==
    /\ q.provider = "chromeApi"
    /\ q.sourceLangCode = "auto"
    /\ q.detection # NoDetection
    /\ ~q.detection.error

\* The language a report gives the highest percentage to
HighestConfidence(detection, language) ==
    \E k \in 1..Len(detection.languages) :
        /\ detection.languages[k].language = language
        /\ \A j \in 1..Len(detection.languages) :
              detection.languages[j].percentage <= detection.languages[k].percentage

\* C29: when the source is "auto", the detected source language of the Chrome API
\* provider is a language reported with the highest percentage; when none is reported
\* it is "en", never "auto".
C29_DetectedLanguage ==
    \A i \in Requests :
        LET q == req[i]
        IN Detected(q)
            => /\ q.detection.languages # <<>>
                    => HighestConfidence(q.detection, q.detectedSourceLang)
               /\ q.detection.languages = <<>> => q.detectedSourceLang = "en"
               /\ q.detectedSourceLang # "auto"


\* The language detection of a translate call of the Chrome API provider has failed
DetectionFailed(q) ==
    /\ q.provider = "chromeApi"
    /\ q.detection # NoDetection
    /\ q.detection.error

\* C30: when the language detection fails, translate of the Chrome API provider has
\* returned a failure that says so, with no call of translateText before or after it,
\* whether or not the provider is in detect-only mode.
C30_DetectionFailureIsFinal ==
    \A i \in Requests :
        LET q == req[i]
        IN DetectionFailed(q)
            => /\ q.pc = "done"
               /\ q.result.success = FALSE
               /\ q.result.error = <<"Language detection failed: ", "lastError.message">>
               /\ q.fetches = <<>>

\* In detect-only mode, a translate call has ended after its detection failed
C30_Witness ==
    \E i \in Requests :
        /\ DetectionFailed(req[i])
        /\ chromeApiConfig.detectOnly
        /\ req[i].pc = "done"
        /\ req[i].result.success = FALSE


\* A translate call of the Chrome API provider that no failed detection has ended
PastDetection(q) ==
    /\ q.provider = "chromeApi"
    /\ q.pc # "idle"
    /\ q.pc # "awaitDetect"
    /\ ~DetectionFailed(q)

-----------------------------------------------------------------------------
(* The response cleaning on its own: one translate call of the local-model     *)
(* provider, whose model answers with any raw response                          *)

RawResponses == SeqsUpTo(Tokens, MaxRawLen)

CleaningInit ==
    /\ ollamaConfig = ScenarioOllamaSettings
    /\ config = [defaultConfig EXCEPT !.ollama = ollamaConfig]
    /\ activeBackendModule = "ollama"
    /\ listening = TRUE
    /\ initDone = TRUE
    /\ req = [i \in Requests |-> IdleRequest]
    /\ supportedLanguagesList = <<>>
    /\ storage = NullConfig
    /\ configFile = [ok |-> FALSE, config |-> NullConfig]
    /\ fresh = TRUE
    /\ chromeApiConfig = EmptyChromeApiConfig
    /\ call = NoCall

CleaningNext ==
    \/ translate(1, "en", "ja")
    \/ \E r \in RawResponses : PreferredReply(1, [kind |-> "ok", response |-> r])

SpecCleaning == CleaningInit /\ [][CleaningNext]_vars

\* The number of tokens c in t
Count(t, c) == Cardinality({k \in 1..Len(t) : t[k] = c})

\* t without the whitespace at its ends
Trimmed(t) ==
    LET inner == {k \in 1..Len(t) : t[k] # "s"}
    IN IF inner = {} THEN <<>>
       ELSE SubSeq(t, SetMin(inner), CHOOSE k \in inner : \A j \in inner : j <= k)

\* What the cleaning of raw has to give: raw without the one preamble it starts with,
\* if any, then without the whitespace at its ends, then without the one quote it
\* starts with and the one quote it ends with, if any
CleanedOnce(raw, cleaned) ==
    LET body == Trimmed(IF raw # <<>> /\ raw[1] = "P" THEN SubSeq(raw, 2, Len(raw)) ELSE raw)
        n == Len(body)
        lead == IF n > 0 /\ body[1] = "Q" THEN 1 ELSE 0
        trail == IF n > lead /\ body[n] = "Q" THEN 1 ELSE 0
    IN cleaned = SubSeq(body, 1 + lead, n - trail)

\* C32: the cleaning takes away one preamble at the start and one quote at each end
\* and nothing else but the whitespace at the ends: a second preamble and a second layer
\* of quotes stay, and a response without preamble and quotes comes back trimmed.
C32_CleaningRemovesOneLayer ==
    \A i \in Requests : \A k \in 1..Len(req[i].fetches) :
        LET f == req[i].fetches[k]
            raw == f.raw
            t == f.translation
        IN (f.state # "pending" /\ f.response = "ok")
            => /\ CleanedOnce(raw, t)
               /\ Count(t, "P") >= Count(raw, "P") - 1
               /\ Count(t, "Q") >= Count(raw, "Q") - 2
               /\ Count(t, "a") = Count(raw, "a")
               /\ (Len(raw) >= 3 /\ raw[1] = "P" /\ raw[2] = "P" /\ raw[Len(raw)] = "a")
                    => t = SubSeq(raw, 2, Len(raw))
               /\ (Len(raw) = 5 /\ raw[1] = "Q" /\ raw[2] = "Q" /\ raw[3] = "a"
                         /\ raw[4] = "Q" /\ raw[5] = "Q")
                    => t = <<"Q", "a", "Q">>
               /\ (Count(raw, "P") = 0 /\ Count(raw, "Q") = 0) => t = Trimmed(raw)
               /\ f.state = "returned" <=> t # <<>>
               /\ f.state = "returned" => req[i].result.translation = t

\* A response in two layers of quotes has been cleaned and returned
C32_Witness ==
    \E i \in Requests :
        /\ Len(req[i].fetches) = 1
        /\ req[i].fetches[1].raw = <<"Q", "Q", "a", "Q", "Q">>
        /\ req[i].fetches[1].state = "returned"
        /\ req[i].result.translation = <<"Q", "a", "Q">>


-----------------------------------------------------------------------------
(* Prompt formatting *)

RECURSIVE Substituted(_, _, _, _)
\* The template with each placeholder replaced in place by its value, all else unchanged
Substituted(template, source, target, text) ==
    IF template = <<>> THEN <<>>
    ELSE (IF Head(template) = "{sourceLanguage}" THEN source
          ELSE IF Head(template) = "{targetLanguage}" THEN target
          ELSE IF Head(template) = "{text}" THEN text
          ELSE <<Head(template)>>)
         \o Substituted(Tail(template), source, target, text)

\* formatPrompt has run on a template of the model in which each placeholder occurs once
FormattedOncePerPlaceholder ==
    /\ call.fn = "formatPrompt"
    /\ call.done
    /\ call.style = "natural"
    /\ call.model.hasTemplates
    /\ call.model.promptTemplates.natural \in OncePerPlaceholder

\* C33: for a template in which each placeholder appears once, formatPrompt returns the
\* template with each placeholder replaced in place by its value exactly once and
\* everything else unchanged, whatever the three values are (values holding placeholder
\* text included)
C33_PlaceholdersReplacedInPlace ==
    FormattedOncePerPlaceholder =>
        /\ ~call.result.threw
        /\ call.result.prompt =
              Substituted(call.model.promptTemplates.natural,
                          IF call.sourceLanguage = <<"auto">>
                          THEN <<"the source language">> ELSE call.sourceLanguage,
                          call.targetLanguage, call.text)


\* formatPrompt has run
Formatted == call.fn = "formatPrompt" /\ call.done

\* The model's own template for a style: the templates a model configuration can name
OwnTemplate(model, style) ==
    IF ~model.hasTemplates THEN NoTemplate
    ELSE IF style = "natural" THEN model.promptTemplates.natural
    ELSE IF style = "literal" THEN model.promptTemplates.literal
    ELSE NoTemplate

\* C34: formatPrompt uses the model's template for the requested style; a style that is
\* missing, unrecognized or without a template degrades to the model's natural template,
\* and to the built-in template if that is missing too; it never fails for lack of a
\* template
C34_TemplateDegradesToNatural ==
    Formatted =>
        LET style == IF call.style = Undefined THEN "natural" ELSE call.style
            own == OwnTemplate(call.model, style)
            natural == OwnTemplate(call.model, "natural")
        IN /\ ~call.result.threw
           /\ call.result.template =
                 IF own # NoTemplate THEN own
                 ELSE IF natural # NoTemplate THEN natural
                 ELSE BasicTemplate


-----------------------------------------------------------------------------
(* Failed and concurrent changes of the configuration *)

\* Request i, an updateConfig or switchBackend handled on its own, was answered with a
\* failure
FailedChange(i) ==
    /\ HandledLast(i)
    /\ req[i].action \in {"updateConfig", "switchBackend"}
    /\ IsFailure(req[i].responses[1])

\* C35: an updateConfig or switchBackend request answered with a failure leaves the
\* Coordinator's state as it was before the request: the configuration, the language
\* catalog and the active provider are unchanged (for the first request after the start
\* the configuration and catalog before it are those of loadAndProcessConfig)
C35_FailedChangeLeavesState ==
    \A i \in Requests :
        FailedChange(i)
            => /\ activeBackendModule = req[i].moduleBefore
               /\ ActiveBackendName = req[i].backendBefore
               /\ i = 1 => /\ config = loadAndProcessConfig(configFile).config
                           /\ supportedLanguagesList
                                  = loadAndProcessConfig(configFile).catalog


\* No updateConfig, resetConfig or switchBackend request is in progress
NoChangeInProgress ==
    /\ initDone
    /\ listening
    /\ \A i \in Requests :
           req[i].action \in {"updateConfig", "resetConfig", "switchBackend"}
               => req[i].pc \in {"idle", "done"}

\* C36: whenever no updateConfig, resetConfig or switchBackend request is in progress,
\* the active provider is the registry entry for config.activeBackend, after any
\* sequence of requests, succeeded or failed
C36_ProviderMatchesConfig ==
    NoChangeInProgress => activeBackendModule = ActiveBackendName


\* Requests 1 and 2 are switchBackend requests for different registered backends, the
\* second received while the first was waiting
TwoSwitches ==
    /\ MaxReqs >= 2
    /\ req[1].action = "switchBackend" /\ req[2].action = "switchBackend"
    /\ req[1].pc # "idle" /\ req[2].pc # "idle"
    /\ ~req[2].alone
    /\ req[1].payload.backend \in backendModules
    /\ req[2].payload.backend \in backendModules
    /\ req[1].payload.backend # req[2].payload.backend

\* Request i has just been answered: its response is sent in this step
Answers(i) == req[i].pc # "done" /\ req'[i].pc = "done"

\* C37: when two switchBackend requests for different registered backends are in flight
\* together, each one answered with success names, in its response, the backend that is
\* active when the response is sent; and after both have ended the active provider is
\* the registry entry for config.activeBackend
C37_ConcurrentSwitches ==
    /\ [][\A i \in Requests :
             (TwoSwitches /\ Answers(i) /\ req'[i].responses[1].success)
                 => req'[i].responses[1].message
                       = <<"Switched to ", activeBackendModule', " backend successfully">>]_vars
    /\ []((TwoSwitches /\ req[1].pc = "done" /\ req[2].pc = "done"
             /\ \A i \in Requests : i > 2 => req[i].pc = "idle")
            => activeBackendModule = ActiveBackendName)


\* C38: in every getConfig response the language catalog is the catalog derived from
\* the configuration carried in the same response, also when the getConfig is handled
\* while an updateConfig is suspended at an await, or after an updateConfig that failed
C38_GetConfigCatalogMatches ==
    \A i \in Requests :
        (req[i].action = "getConfig" /\ req[i].pc = "done"
            /\ req[i].responses[1].config # NullConfig)
            => req[i].responses[1].supportedLanguages
                   = BuildCatalog(req[i].responses[1].config)


-----------------------------------------------------------------------------
(* Model resolution of a translate request of the local-model provider *)

\* A step of request i: at its dispatch the two models are resolved from the settings
\* the provider has then and the first call names the preferred model; the fallback
\* call names the fallback model resolved at dispatch; the result names the model of
\* the call that succeeded
ResolvesOnce(i) ==
    LET q == req[i]
        after == req'[i]
    IN /\ (q.pc = "idle" /\ after.pc = "awaitPreferred")
            => /\ after.preferredModel
                     = getPreferredModel(after.sourceLangCode, after.targetLangCode)
               /\ after.fallbackModel = getFallbackModel
               /\ after.fetches = <<Fetch(after.preferredModel.id)>>
       /\ (q.pc = "awaitPreferred" /\ after.pc = "awaitFallback")
            => /\ after.preferredModel = q.preferredModel
               /\ after.fallbackModel = q.fallbackModel
               /\ Len(after.fetches) = 2
               /\ after.fetches[2].model = q.fallbackModel.id
       /\ (q.pc \in {"awaitPreferred", "awaitFallback"} /\ after.pc = "done"
             /\ after.result.success)
            => after.result.modelUsed = IF q.pc = "awaitPreferred"
                                        THEN q.preferredModel.id
                                        ELSE q.fallbackModel.id

\* C39: a translate request of the local-model provider resolves its preferred and
\* fallback models once, before its first network call; an updateConfig that
\* initializes the provider again while the request waits for the preferred model
\* changes neither the fallback model the request then tries nor the model id it
\* reports
C39_ModelsResolvedOnce ==
    [][\A i \in Requests : ResolvesOnce(i)]_vars

\* A translate request was answered by its fallback model, after an updateConfig that
\* arrived while it was in flight gave the provider settings with another fallback model
C39_Witness ==
    /\ MaxReqs >= 2
    /\ req[1].action = "translate" /\ req[1].pc = "done"
    /\ req[1].provider = "ollama"
    /\ req[1].result.success /\ req[1].result.usedFallback
    /\ req[1].result.modelUsed = req[1].fallbackModel.id
    /\ req[2].action = "updateConfig" /\ req[2].pc = "done"
    /\ ~req[2].alone
    /\ req[2].responses[1].success
    /\ activeBackendModule = "ollama"
    /\ getFallbackModel.id # req[1].fallbackModel.id


-----------------------------------------------------------------------------
(* The listener and the active provider *)

\* An answer that reports the lack of an active provider (lines 365-369, 396-401)
ReportsNoBackend(r) ==
    \/ "error" \in DOMAIN r /\ r.error = NoBackendError
    \/ "message" \in DOMAIN r /\ r.message = NoBackendError

\* C40: in every state in which the message listener is registered the active provider
\* reference is non-null, after any sequence of requests; so the answers "No active
\* translation backend available" of the translate and status handlers are never given
C40_ListenerImpliesProvider ==
    /\ listening => activeBackendModule \in backendModules
    /\ \A i \in Requests :
           \A k \in 1..Len(req[i].responses) : ~ReportsNoBackend(req[i].responses[k])

\* The listener was registered by the recovery path of initialize, after config.json
\* could not be loaded, and a translate and a checkStatus request have been answered
C40_Witness ==
    /\ MaxReqs >= 2
    /\ listening
    /\ ~configFile.ok
    /\ {req[1].action, req[2].action} = {"translate", "checkStatus"}
    /\ req[1].pc = "done" /\ req[2].pc = "done"
    /\ Len(req[1].responses) = 1 /\ Len(req[2].responses) = 1

=============================================================================
